---- MODULE Spec2Model ----
(***************************************************************************)
(* The flexbox-style AutoLayout container of glimo                          *)
(* (src/instructions/auto_layout.go, lines 1-846): the orchestrator        *)
(* (NewAutoLayout, Add, SetStyle, Size, Draw, ensureLayout) and the layout *)
(* pass (computeInner, buildLines, placeLines, positionAbsolute,           *)
(* layoutFlex).                                                            *)
(*                                                                         *)
(* Modelling conventions                                                   *)
(*  - [4]int margins and paddings are tuples <<top, right, bottom, left>>. *)
(*  - Optional values (pointer offsets, AlignSelf) are <<>> (nil) or <<v>>.*)
(*  - FlexGrow / FlexShrink are float64 in the code; the model draws them  *)
(*    from naturals and computes the proportional shares exactly           *)
(*    (floor and fractional part of  amount * factor / total).             *)
(*  - sort.Slice over the fractional parts is an insertion sort for the    *)
(*    line lengths modelled here (at most 12 items), hence stable.         *)
(*  - Gap is a Vector2 of floats truncated by int(); the model draws       *)
(*    integer gaps.                                                        *)
(***************************************************************************)
EXTENDS Integers, Sequences, FiniteSets, TLC

VARIABLES
    x, y,        \* AutoLayout.x, AutoLayout.y: container origin
    style,       \* AutoLayout.style
    children,    \* AutoLayout.children: sequence of nodes (with their shapes)
    w, h,        \* AutoLayout.w, AutoLayout.h: cached outer size
    dirty,       \* AutoLayout.dirty
    trace,       \* locals of the last layoutFlex run (lines, budgets, sizes)
    painted,     \* calls the shapes received during the last Draw, in order
    hist,        \* the last public operation and what it returned
    basis        \* style and children the last layoutFlex run was made for

vars == <<x, y, style, children, w, h, dirty, trace, painted, hist, basis>>

----------------------------------------------------------------------------
(* Enumerations                                                            *)

Row == "Row"
Column == "Column"

JustifyStart == "JustifyStart"
JustifyCenter == "JustifyCenter"
JustifyEnd == "JustifyEnd"
JustifySpaceBetween == "JustifySpaceBetween"
JustifySpaceAround == "JustifySpaceAround"
JustifySpaceEvenly == "JustifySpaceEvenly"

AlignItemsStart == "AlignItemsStart"
AlignItemsCenter == "AlignItemsCenter"
AlignItemsEnd == "AlignItemsEnd"
AlignItemsStretch == "AlignItemsStretch"

PosRelative == "PosRelative"
PosAbsolute == "PosAbsolute"

(* Kinds of shape a child can be, by the capabilities the code tests for.  *)
PlainShape == "PlainShape"          \* Shape only: no Size, no SetPosition
BoundedShape == "BoundedShape"      \* Size/Position/SetPosition, fixed size
Resizable == "Resizable"            \* BoundedShape with SetSize
Boundable == "Boundable"            \* BoundedShape with SetSize and SetBounds

----------------------------------------------------------------------------
(* Arithmetic helpers                                                      *)

\* Go's integer division truncates toward zero.
quo(a, b) ==
    IF a >= 0 THEN a \div b ELSE -((-a) \div b)

MaxInt(a, b) == IF a > b THEN a ELSE b

RECURSIVE SumSeq(_)
SumSeq(s) == IF s = <<>> THEN 0 ELSE Head(s) + SumSeq(Tail(s))

\* v evaluated once and handed to F; Tuple(s) is s as an explicit tuple.
With(v, F(_)) == CHOOSE r \in {F(u) : u \in {v}} : TRUE
Tuple(s) == s \o <<>>

Nil == <<>>
Some(v) == <<v>>
Deref(p) == p[1]

----------------------------------------------------------------------------
(* Shapes and nodes                                                        *)

\* meas/pos are set in Add only when the shape is a BoundedShape.
hasMeas(n) == n.kind # PlainShape

\* naturalSize: intrinsic size of the shape, overridden by explicit
\* Width/Height of the item style.
naturalSize(n) ==
    LET w0 == IF hasMeas(n) THEN n.sw ELSE 0
        h0 == IF hasMeas(n) THEN n.sh ELSE 0
    IN  [w |-> IF n.st.Width > 0 THEN n.st.Width ELSE w0,
         h |-> IF n.st.Height > 0 THEN n.st.Height ELSE h0]

\* baseMainCross: main and cross base lengths, margins included.
baseMainCross(n, isRow) ==
    LET nat == naturalSize(n)
        mt == n.st.Margin[1]
        mr == n.st.Margin[2]
        mb == n.st.Margin[3]
        ml == n.st.Margin[4]
    IN  IF isRow
        THEN [main |-> (IF n.st.FlexBasis > 0 THEN n.st.FlexBasis
                        ELSE IF n.st.Width > 0 THEN n.st.Width
                        ELSE nat.w) + ml + mr,
              cross |-> nat.h + mt + mb]
        ELSE [main |-> (IF n.st.FlexBasis > 0 THEN n.st.FlexBasis
                        ELSE IF n.st.Height > 0 THEN n.st.Height
                        ELSE nat.h) + mt + mb,
              cross |-> nat.w + ml + mr]

\* resolveCrossSize: cross size before any stretch.
resolveCrossSize(n, isRow, nw, nh) ==
    IF isRow
    THEN IF n.st.Height > 0 THEN n.st.Height ELSE nh
    ELSE IF n.st.Width > 0 THEN n.st.Width ELSE nw

isAbsolute(n) == n.st.Position = PosAbsolute

----------------------------------------------------------------------------
(* computeInner: content box of the container, estimated over a single     *)
(* line when an axis is auto.                                              *)

inFlow(kids) == {i \in 1..Len(kids) : ~isAbsolute(kids[i])}

\* An estimate that also counts the out-of-flow children.
RECURSIVE natMainSumAll(_, _, _)
natMainSumAll(kids, isRow, i) ==
    IF i = 0 THEN 0
    ELSE natMainSumAll(kids, isRow, i - 1) + baseMainCross(kids[i], isRow).main

RECURSIVE natMainSum(_, _, _)
natMainSum(kids, isRow, i) ==
    IF i = 0 THEN 0
    ELSE natMainSum(kids, isRow, i - 1)
         + (IF isAbsolute(kids[i]) THEN 0 ELSE baseMainCross(kids[i], isRow).main)

RECURSIVE natCrossMax(_, _, _)
natCrossMax(kids, isRow, i) ==
    IF i = 0 THEN 0
    ELSE LET prev == natCrossMax(kids, isRow, i - 1)
             bc == baseMainCross(kids[i], isRow).cross
         IN  IF ~isAbsolute(kids[i]) /\ bc > prev THEN bc ELSE prev

\* No clamp: a content size may go negative.
clampInnerNone(v) == v

\* The clamp at the end of computeInner.
clampInner(v) == IF v < 0 THEN 0 ELSE v

computeInner(cs, kids, isRow) ==
    LET natMain == natMainSum(kids, isRow, Len(kids))
        natCross == natCrossMax(kids, isRow, Len(kids))
        count == Cardinality(inFlow(kids))
        pt == cs.Padding[1]
        pr == cs.Padding[2]
        pb == cs.Padding[3]
        pl == cs.Padding[4]
        gx == cs.Gap.X
        gy == cs.Gap.Y
        iw == IF cs.Width > 0 THEN cs.Width - pl - pr
              ELSE IF isRow
                   THEN natMain + (IF count > 1 THEN gx * (count - 1) ELSE 0)
                   ELSE natCross
        ih == IF cs.Height > 0 THEN cs.Height - pt - pb
              ELSE IF isRow
                   THEN natCross
                   ELSE natMain + (IF count > 1 THEN gy * (count - 1) ELSE 0)
    IN  [innerW |-> clampInner(iw), innerH |-> clampInner(ih),
         pl |-> pl, pt |-> pt, gx |-> gx, gy |-> gy]

----------------------------------------------------------------------------
(* buildLines: partition of the in-flow children into lines.  A line holds *)
(* the positions (in the child list) of its items.                         *)

emptyLine == [items |-> <<>>, base |-> 0, cross |-> 0, skippedGaps |-> 0]

\* A push that appends the current line also when it is empty.
pushAlways(acc) == [lines |-> Append(acc.lines, acc.cur), cur |-> emptyLine]

\* push(): the current line is appended only when it holds an item.
push(acc) ==
    IF Len(acc.cur.items) > 0
    THEN [lines |-> Append(acc.lines, acc.cur), cur |-> emptyLine]
    ELSE acc

\* Tentative length the item adds to the current line.
itemWithGap(curLen, ignoreGapBefore, baseMain, gapMain) ==
    IF curLen > 0 /\ ~ignoreGapBefore THEN baseMain + gapMain ELSE baseMain

\* The limit a line is compared with: the "- 0" adjustment changes nothing.
lineLimit(autoHeightColumn, mainLimit) ==
    IF ~autoHeightColumn /\ mainLimit > 0
    THEN (IF mainLimit - 0 < 0 THEN 0 ELSE mainLimit - 0)
    ELSE mainLimit

\* A wrap test that also wraps an item that fits exactly.
wrapBeforeAtLimit(wrap, curLen, curBase, withGap, effectiveLimit) ==
    wrap /\ curLen > 0 /\ curBase + withGap >= effectiveLimit

\* A wrap test that does not look at the Wrap flag.
wrapBeforeAlways(wrap, curLen, curBase, withGap, effectiveLimit) ==
    curLen > 0 /\ curBase + withGap > effectiveLimit

\* The wrap test made before an item is appended.
wrapBefore(wrap, curLen, curBase, withGap, effectiveLimit) ==
    wrap /\ curLen > 0 /\ curBase + withGap > effectiveLimit

\* Appending item i to the current line; skippedGaps is never written.
appendItem(cur, i, ignoreGapBefore, bm, gapMain) ==
    [items |-> Append(cur.items, i),
     base |-> cur.base
              + (IF Len(cur.items) > 0 /\ ~ignoreGapBefore THEN gapMain ELSE 0)
              + bm.main,
     cross |-> IF bm.cross > cur.cross THEN bm.cross ELSE cur.cross,
     skippedGaps |-> cur.skippedGaps]

\* One iteration of the loop over al.children.
buildStep(acc, cs, kids, i, isRow, mainLimit, gapMain) ==
    IF isAbsolute(kids[i]) THEN acc
    ELSE With(baseMainCross(kids[i], isRow), LAMBDA bm :
         LET n == kids[i]
             withGap == itemWithGap(Len(acc.cur.items), n.st.IgnoreGapBefore,
                                    bm.main, gapMain)
             autoHeightColumn == ~isRow /\ cs.Height = 0
             effectiveLimit == lineLimit(autoHeightColumn, mainLimit)
             acc1 == IF wrapBefore(cs.Wrap, Len(acc.cur.items), acc.cur.base,
                                   withGap, effectiveLimit)
                     THEN push(acc) ELSE acc
         IN  [lines |-> acc1.lines,
              cur |-> appendItem(acc1.cur, i, n.st.IgnoreGapBefore, bm, gapMain)])

RECURSIVE buildLoop(_, _, _, _, _, _)
buildLoop(cs, kids, i, isRow, mainLimit, gapMain) ==
    IF i = 0 THEN [lines |-> <<>>, cur |-> emptyLine]
    ELSE With(buildLoop(cs, kids, i - 1, isRow, mainLimit, gapMain), LAMBDA acc :
              buildStep(acc, cs, kids, i, isRow, mainLimit, gapMain))

buildLines(cs, kids, isRow, mainLimit, gx, gy) ==
    LET gapMain == IF isRow THEN gx ELSE gy
    IN  push(buildLoop(cs, kids, Len(kids), isRow, mainLimit, gapMain)).lines

----------------------------------------------------------------------------
(* placeLines: flex resolution, justify-content, cross sizing and final    *)
(* coordinates, line by line.                                              *)

\* Cross-axis distribution of the lines (AlignContent).
alignContent(cs, lines, crossLimit, gapCross) ==
    LET crosses == [k \in 1..Len(lines) |-> lines[k].cross]
        totalCross == IF Len(lines) > 0
                      THEN SumSeq(crosses) + gapCross * (Len(lines) - 1)
                      ELSE 0
        leftover0 == crossLimit - totalCross
        leftoverCross == IF leftover0 < 0 THEN 0 ELSE leftover0
    IN  [totalCross |-> totalCross,
         leftoverCross |-> leftoverCross,
         crossStartOffset |->
            IF cs.AlignContent = AlignItemsCenter THEN quo(leftoverCross, 2)
            ELSE IF cs.AlignContent = AlignItemsEnd THEN leftoverCross
            ELSE 0,
         extraPerLine |->
            IF cs.AlignContent = AlignItemsStretch
               /\ Len(lines) > 0 /\ leftoverCross > 0
            THEN quo(leftoverCross, Len(lines))
            ELSE 0]

\* Line-specific main-axis budget after subtracting the skipped gaps.
lineBudget(mainLimit, skippedGaps, gapMain) ==
    IF mainLimit - skippedGaps * gapMain < 0 THEN 0
    ELSE mainLimit - skippedGaps * gapMain

\* Base main content size of an item (no margins).
baseMainContent(n, isRow) ==
    LET nat == naturalSize(n)
    IN  IF isRow
        THEN IF n.st.FlexBasis > 0 THEN n.st.FlexBasis
             ELSE IF n.st.Width > 0 THEN n.st.Width ELSE nat.w
        ELSE IF n.st.FlexBasis > 0 THEN n.st.FlexBasis
             ELSE IF n.st.Height > 0 THEN n.st.Height ELSE nat.h

\* Alignment of an item: AlignSelf when set, else the container's AlignItems.
itemAlign(n, cs) ==
    IF n.st.AlignSelf # Nil THEN Deref(n.st.AlignSelf) ELSE cs.AlignItems

\* A shrink factor taken as declared: 0 stays 0.
shrinkFactorDeclared(sh) == sh

\* FlexShrink 0 counts as 1.
shrinkFactor(sh) == IF sh = 0 THEN 1 ELSE sh

\* itemRec: what placeLines precomputes per item of a line.
itemRec(kids, i, cs, isRow) ==
    LET n == kids[i]
        nat == naturalSize(n)
        bmc == baseMainContent(n, isRow)
    IN  [i |-> i,
         id |-> n.id,
         baseMainContent |-> bmc,
         baseMainWithMarg |->
            IF isRow THEN bmc + n.st.Margin[4] + n.st.Margin[2]
            ELSE bmc + n.st.Margin[1] + n.st.Margin[3],
         mt |-> n.st.Margin[1], mr |-> n.st.Margin[2],
         mb |-> n.st.Margin[3], ml |-> n.st.Margin[4],
         nw |-> nat.w, nh |-> nat.h,
         align |-> itemAlign(n, cs),
         grow |-> n.st.FlexGrow,
         shrink |-> shrinkFactor(n.st.FlexShrink),
         ignoreGapBefore |-> n.st.IgnoreGapBefore]

\* Fixed gaps actually used between the items of a line.
fixedGaps(recs, gapMain) ==
    SumSeq([k \in 1..Len(recs) |->
              IF k > 1 /\ ~recs[k].ignoreGapBefore THEN gapMain ELSE 0])

\* Free space available for flexing.
flexFreeOf(effectiveLimit, sumBaseWithMargins, totalGaps) ==
    effectiveLimit - sumBaseWithMargins - totalGaps

(* float64 arithmetic of the shares.  FlexGrow and FlexShrink hold whole   *)
(* numbers here; a float64 value is its integer part and the bits after    *)
(* the binary point, most significant first.  Every operation rounds to    *)
(* MantissaBits significant bits, ties to even.                            *)

MantissaBits == 53

\* Length the fractional bits are padded to before two values are compared.
FracBits == 64

\* Number of bits of a positive integer (0 for 0).
RECURSIVE bitLen(_)
bitLen(v) == IF v = 0 THEN 0 ELSE 1 + bitLen(v \div 2)

\* Position of the first 1 among the bits (0: none).
firstOne(bits) ==
    IF \E i \in 1..Len(bits) : bits[i] = 1
    THEN CHOOSE i \in 1..Len(bits) :
            bits[i] = 1 /\ \A j \in 1..(i - 1) : bits[j] = 0
    ELSE 0

\* The value one unit in the last place above int + 0.bits.
incBits(int, bits) ==
    IF \E i \in 1..Len(bits) : bits[i] = 0
    THEN LET z == CHOOSE i \in 1..Len(bits) :
                     bits[i] = 0 /\ \A j \in (i + 1)..Len(bits) : bits[j] = 1
         IN  [int |-> int,
              bits |-> [i \in 1..Len(bits) |->
                          IF i < z THEN bits[i] ELSE IF i = z THEN 1 ELSE 0]]
    ELSE [int |-> int + 1, bits |-> [i \in 1..Len(bits) |-> 0]]

\* int + 0.bits (+ something below the last bit when sticky) rounded to
\* MantissaBits significant bits, ties to even.
roundBits(int, bits, sticky) ==
    LET p == firstOne(bits)
        cut == IF int > 0 THEN MantissaBits - bitLen(int)
               ELSE IF p > 0 THEN p + MantissaBits - 1
               ELSE Len(bits)
    IN  IF Len(bits) <= cut THEN [int |-> int, bits |-> bits]
        ELSE LET guard == bits[cut + 1]
                 rest == sticky \/ \E i \in (cut + 2)..Len(bits) : bits[i] = 1
                 lsb == IF cut > 0 THEN bits[cut] ELSE int % 2
                 kept == SubSeq(bits, 1, cut)
             IN  IF guard = 1 /\ (rest \/ lsb = 1)
                 THEN incBits(int, kept)
                 ELSE [int |-> int, bits |-> kept]

\* Bits handled at once, so that every intermediate product stays below 2^31.
LimbBits == 15

\* (r * 2^k) mod total, for k up to five limbs.
shiftMod(r, k, total) ==
    LET step(v, j) == (v * 2 ^ (MaxInt(k - LimbBits * j, 0)
                                  - MaxInt(k - LimbBits * (j + 1), 0))) % total
    IN  step(step(step(step(step(r, 0), 1), 2), 3), 4)

\* Bit i of the binary expansion of factor / total, factor < total.
quotientBit(factor, total, i) ==
    IF 2 * shiftMod(factor, i - 1, total) >= total THEN 1 ELSE 0

\* factor / total in float64: the expansion up to the guard bit, rounded;
\* what the division leaves behind the guard bit is the sticky part.
floatDiv(factor, total) ==
    IF factor = total THEN [int |-> 1, bits |-> <<>>]
    ELSE IF factor = 0 THEN [int |-> 0, bits |-> <<>>]
    ELSE With(CHOOSE i \in 1..(2 * LimbBits) :
                  /\ quotientBit(factor, total, i) = 1
                  /\ \A j \in 1..(i - 1) : quotientBit(factor, total, j) = 0,
              LAMBDA p :
         With(Tuple([i \in 1..(p + MantissaBits) |-> quotientBit(factor, total, i)]),
              LAMBDA bits :
         With(roundBits(0, bits, shiftMod(factor, p + MantissaBits, total) # 0),
              LAMBDA q : [int |-> q.int, bits |-> Tuple(q.bits)])))

\* The value of limb j (LimbBits bits from the left, zero padded) of bits.
limbOf(bits, j) ==
    SumSeq([k \in 1..LimbBits |->
              IF LimbBits * (j - 1) + k <= Len(bits)
              THEN bits[LimbBits * (j - 1) + k] * 2 ^ (LimbBits - k)
              ELSE 0])

\* amount * limb j of bits plus what the limbs to its right carry over.
RECURSIVE limbProduct(_, _, _, _)
limbProduct(amount, bits, j, limbs) ==
    IF j > limbs THEN 0
    ELSE amount * limbOf(bits, j)
         + limbProduct(amount, bits, j + 1, limbs) \div 2 ^ LimbBits

\* amount * 0.bits, exact: the integer part and the fraction bits.
mulBits(amount, bits) ==
    With((Len(bits) + LimbBits - 1) \div LimbBits, LAMBDA limbs :
    With(Tuple([j \in 1..(limbs + 1) |-> limbProduct(amount, bits, j, limbs)]),
         LAMBDA prod :
         [int |-> IF limbs = 0 THEN 0 ELSE prod[1] \div 2 ^ LimbBits,
          bits |-> Tuple([i \in 1..(limbs * LimbBits) |->
                      (prod[(i - 1) \div LimbBits + 1]
                         \div 2 ^ (LimbBits - 1 - ((i - 1) % LimbBits))) % 2])]))

\* float64(amount) * q in float64.
floatMul(amount, q) ==
    With(mulBits(amount, q.bits), LAMBDA m :
    With(roundBits(amount * q.int + m.int, m.bits, FALSE), LAMBDA p :
         [int |-> p.int, bits |-> Tuple(p.bits)]))

\* float64(amount) * (factor / total), as the code computes a share.
floatShare(amount, factor, total) ==
    With(floatDiv(factor, total), LAMBDA q : floatMul(amount, q))

\* int(math.Floor(share)) and share - float64(f), the latter as FracBits bits.
shareFloor(amount, factor, total) == floatShare(amount, factor, total).int
shareFrac(amount, factor, total) ==
    With(floatShare(amount, factor, total), LAMBDA share :
         Tuple([i \in 1..FracBits |->
                  IF i <= Len(share.bits) THEN share.bits[i] ELSE 0]))

\* fracs[a] > fracs[b] for two fractional parts.
fracGreater(fa, fb) ==
    \E i \in 1..FracBits :
        fa[i] = 1 /\ fb[i] = 0 /\ \A j \in 1..(i - 1) : fa[j] = fb[j]

\* Position of item i once the indices are sorted by descending fractional
\* part (0-based); equal fractions keep their original order.
fracRank(fracs, i) ==
    Cardinality({j \in 1..Len(fracs) : fracGreater(fracs[j], fracs[i])})
    + Cardinality({j \in 1..(i - 1) : fracs[j] = fracs[i]})

\* The floors alone: the pixels left after flooring are dropped.
floorsOnly(amount, factors, total) ==
    [k \in 1..Len(factors) |-> shareFloor(amount, factors[k], total)]

\* Largest-remainder distribution of amount over the factors: the floors,
\* then one more pixel for each of the first rem indices of the sort.
largestRemainder(amount, factors, total) ==
    With(Tuple([k \in 1..Len(factors) |-> floatShare(amount, factors[k], total)]),
         LAMBDA shares :
    With(Tuple([k \in 1..Len(factors) |-> shares[k].int]),
         LAMBDA floors :
    With(Tuple([k \in 1..Len(factors) |->
                  Tuple([i \in 1..FracBits |->
                           IF i <= Len(shares[k].bits) THEN shares[k].bits[i] ELSE 0])]),
         LAMBDA fracs :
    With(amount - SumSeq(floors), LAMBDA rem :
         [k \in 1..Len(factors) |->
            floors[k] + (IF fracRank(fracs, k) < rem THEN 1 ELSE 0)]))))

\* A resolved size without the clamp at 0.
resolvedSizeUnclamped(base, d) == base + d

\* Resolved size of an item that grows by d (d < 0: shrinks by -d).
resolvedSize(base, d) == IF base + d < 0 THEN 0 ELSE base + d

\* A switch whose grow branch has no guard on the total factor: free space
\* is shared out equally when no item declares FlexGrow.
flexSizesEqualShares(recs, flexFree, totalGrow, totalShrink) ==
    IF flexFree > 0 /\ Len(recs) > 0
    THEN With(Tuple(largestRemainder(flexFree,
                        [k \in 1..Len(recs) |->
                            IF totalGrow > 0 THEN recs[k].grow ELSE 1],
                        IF totalGrow > 0 THEN totalGrow ELSE Len(recs))),
              LAMBDA add :
              [k \in 1..Len(recs) |-> resolvedSize(recs[k].baseMainContent, add[k])])
    ELSE IF flexFree < 0 /\ totalShrink > 0
    THEN With(Tuple(largestRemainder(-flexFree,
                        [k \in 1..Len(recs) |-> recs[k].shrink], totalShrink)),
              LAMBDA sub :
              [k \in 1..Len(recs) |-> resolvedSize(recs[k].baseMainContent, -sub[k])])
    ELSE [k \in 1..Len(recs) |-> recs[k].baseMainContent]

\* The switch over flexFree: resolved main content sizes of a line.
flexSizes(recs, flexFree, totalGrow, totalShrink) ==
    IF flexFree > 0 /\ totalGrow > 0
    THEN With(Tuple(largestRemainder(flexFree,
                        [k \in 1..Len(recs) |-> recs[k].grow], totalGrow)),
              LAMBDA add :
              [k \in 1..Len(recs) |-> resolvedSize(recs[k].baseMainContent, add[k])])
    ELSE IF flexFree < 0 /\ totalShrink > 0
    THEN With(Tuple(largestRemainder(-flexFree,
                        [k \in 1..Len(recs) |-> recs[k].shrink], totalShrink)),
              LAMBDA sub :
              [k \in 1..Len(recs) |-> resolvedSize(recs[k].baseMainContent, -sub[k])])
    ELSE [k \in 1..Len(recs) |-> recs[k].baseMainContent]

\* Main-axis margins of an item.
mainMargins(r, isRow) == IF isRow THEN r.ml + r.mr ELSE r.mt + r.mb
crossMargins(r, isRow) == IF isRow THEN r.mt + r.mb ELSE r.ml + r.mr

\* JustifyContent: leading offset and extra spacing between items.
justifyBetweenByCount(mode, remaining, n) ==
    IF mode = JustifyCenter THEN [offset |-> quo(remaining, 2), extra |-> 0]
    ELSE IF mode = JustifyEnd THEN [offset |-> remaining, extra |-> 0]
    ELSE IF mode = JustifySpaceBetween
    THEN [offset |-> 0, extra |-> IF n > 1 THEN quo(remaining, n) ELSE 0]
    ELSE IF mode \in {JustifySpaceAround, JustifySpaceEvenly} /\ n > 0
    THEN [offset |-> quo(remaining, n + 1), extra |-> quo(remaining, n + 1)]
    ELSE [offset |-> 0, extra |-> 0]

justify(mode, remaining, n) ==
    IF mode = JustifyCenter THEN [offset |-> quo(remaining, 2), extra |-> 0]
    ELSE IF mode = JustifyEnd THEN [offset |-> remaining, extra |-> 0]
    ELSE IF mode = JustifySpaceBetween
    THEN [offset |-> 0, extra |-> IF n > 1 THEN quo(remaining, n - 1) ELSE 0]
    ELSE IF mode = JustifySpaceAround
    THEN IF n > 0
         THEN [offset |-> quo(quo(remaining, n), 2), extra |-> quo(remaining, n)]
         ELSE [offset |-> 0, extra |-> 0]
    ELSE IF mode = JustifySpaceEvenly
    THEN IF n > 0
         THEN [offset |-> quo(remaining, n + 1), extra |-> quo(remaining, n + 1)]
         ELSE [offset |-> 0, extra |-> 0]
    ELSE [offset |-> 0, extra |-> 0]

\* A stretch without the floor at 1.
crossSizeNoFloor(n, r, isRow, lineCrossSize) ==
    IF r.align = AlignItemsStretch
    THEN lineCrossSize - crossMargins(r, isRow)
    ELSE resolveCrossSize(n, isRow, r.nw, r.nh)

\* Cross size of an item in a line of cross extent lineCrossSize.
crossSizeOf(n, r, isRow, lineCrossSize) ==
    IF r.align = AlignItemsStretch
    THEN MaxInt(1, lineCrossSize - crossMargins(r, isRow))
    ELSE resolveCrossSize(n, isRow, r.nw, r.nh)

\* A cross position that centres and ends without the item's margins.
crossPosNoMargins(r, sizeCross, isRow, lineCrossSize) ==
    IF r.align = AlignItemsCenter THEN quo(lineCrossSize - sizeCross, 2)
    ELSE IF r.align = AlignItemsEnd THEN lineCrossSize - sizeCross
    ELSE IF isRow THEN r.mt ELSE r.ml

\* Cross position of an item inside its line.
crossPosOf(r, sizeCross, isRow, lineCrossSize) ==
    LET m0 == IF isRow THEN r.mt ELSE r.ml
        m1 == IF isRow THEN r.mb ELSE r.mr
    IN  IF r.align = AlignItemsCenter
        THEN quo(lineCrossSize - sizeCross - (m0 + m1), 2) + m0
        ELSE IF r.align = AlignItemsEnd
        THEN lineCrossSize - sizeCross - m1
        ELSE IF r.align \in {AlignItemsStart, AlignItemsStretch}
        THEN m0
        ELSE 0

\* A cursor that adds the fixed gap whatever the next item says.
cursorAdvanceAlwaysGap(recs, sizes, k, isRow, gapMain, extra) ==
    sizes[k] + mainMargins(recs[k], isRow)
    + (IF k < Len(recs) THEN gapMain + extra ELSE 0)

\* A cursor that passes over the item without its margins.
cursorAdvanceNoMargins(recs, sizes, k, isRow, gapMain, extra) ==
    sizes[k]
    + (IF k < Len(recs)
       THEN (IF ~recs[k + 1].ignoreGapBefore THEN gapMain ELSE 0) + extra
       ELSE 0)

\* What the main cursor advances by after item k of the line.
cursorAdvance(recs, sizes, k, isRow, gapMain, extra) ==
    sizes[k] + mainMargins(recs[k], isRow)
    + (IF k < Len(recs)
       THEN (IF ~recs[k + 1].ignoreGapBefore THEN gapMain ELSE 0) + extra
       ELSE 0)

\* Value of mainCursor when item k is placed.
RECURSIVE mainCursorAt(_, _, _, _, _, _, _)
mainCursorAt(recs, sizes, k, isRow, gapMain, offset, extra) ==
    IF k = 1 THEN offset
    ELSE mainCursorAt(recs, sizes, k - 1, isRow, gapMain, offset, extra)
         + cursorAdvance(recs, sizes, k - 1, isRow, gapMain, extra)

\* One iteration of the loop over the lines: every local of the iteration.
placeLine(cs, kids, ln, isRow, mainLimit, gapMain, extraPerLine, crossOffset, ox, oy, pl, pt) ==
    With(Tuple([k \in 1..Len(ln.items) |-> itemRec(kids, ln.items[k], cs, isRow)]),
         LAMBDA recs :
    With([effectiveLimit |-> lineBudget(mainLimit, ln.skippedGaps, gapMain),
          totalGrow |-> SumSeq([k \in 1..Len(recs) |-> recs[k].grow]),
          totalShrink |-> SumSeq([k \in 1..Len(recs) |-> recs[k].shrink]),
          sumBaseWithMargins |->
              SumSeq([k \in 1..Len(recs) |-> recs[k].baseMainWithMarg]),
          totalGaps |-> fixedGaps(recs, gapMain),
          lineCrossSize |-> ln.cross + extraPerLine],
         LAMBDA a :
    With(flexFreeOf(a.effectiveLimit, a.sumBaseWithMargins, a.totalGaps),
         LAMBDA flexFree :
    With(Tuple(flexSizes(recs, flexFree, a.totalGrow, a.totalShrink)),
         LAMBDA sizes :
    With(SumSeq([k \in 1..Len(recs) |->
                   sizes[k] + mainMargins(recs[k], isRow)]) + a.totalGaps,
         LAMBDA used :
    With(IF a.effectiveLimit - used < 0 THEN 0 ELSE a.effectiveLimit - used,
         LAMBDA remaining :
    With(justify(cs.Justify, remaining, Len(recs)),
         LAMBDA j :
       [items |-> ln.items, base |-> ln.base, cross |-> ln.cross,
        skippedGaps |-> ln.skippedGaps,
        effectiveLimit |-> a.effectiveLimit, recs |-> recs,
        totalGrow |-> a.totalGrow, totalShrink |-> a.totalShrink,
        sumBaseWithMargins |-> a.sumBaseWithMargins,
        totalGaps |-> a.totalGaps,
        flexFree |-> flexFree, sizes |-> sizes, used |-> used,
        remaining |-> remaining, offset |-> j.offset, extra |-> j.extra,
        lineCrossSize |-> a.lineCrossSize, crossOffset |-> crossOffset,
        geom |->
          Tuple([k \in 1..Len(recs) |->
            With(crossSizeOf(kids[recs[k].i], recs[k], isRow, a.lineCrossSize),
                 LAMBDA sizeCross :
            With(crossPosOf(recs[k], sizeCross, isRow, a.lineCrossSize),
                 LAMBDA crossPos :
            With(mainCursorAt(recs, sizes, k, isRow, gapMain, j.offset, j.extra),
                 LAMBDA mainCursor :
               IF isRow
               THEN [i |-> recs[k].i,
                     x |-> ox + pl + mainCursor + recs[k].ml,
                     y |-> oy + pt + crossOffset + crossPos,
                     w |-> sizes[k], h |-> sizeCross]
               ELSE [i |-> recs[k].i,
                     x |-> ox + pl + crossOffset + crossPos,
                     y |-> oy + pt + mainCursor + recs[k].mt,
                     w |-> sizeCross, h |-> sizes[k]])))])]
    )))))))

\* A line start that forgets the stretch share of the lines before it.
RECURSIVE crossOffsetNoShare(_, _, _, _, _)
crossOffsetNoShare(lines, li, start, extraPerLine, gapCross) ==
    IF li = 1 THEN start
    ELSE crossOffsetNoShare(lines, li - 1, start, extraPerLine, gapCross)
         + lines[li - 1].cross + gapCross

\* crossOffset at the start of line li.
RECURSIVE crossOffsetAt(_, _, _, _, _)
crossOffsetAt(lines, li, start, extraPerLine, gapCross) ==
    IF li = 1 THEN start
    ELSE crossOffsetAt(lines, li - 1, start, extraPerLine, gapCross)
         + lines[li - 1].cross + extraPerLine + gapCross

\* placeLines: the per-line locals, in line order.
placeLines(cs, kids, lines, isRow, innerW, innerH, pl, pt, gx, gy, ox, oy) ==
    LET mainLimit == IF isRow THEN innerW ELSE innerH
        crossLimit == IF isRow THEN innerH ELSE innerW
        gapMain == IF isRow THEN gx ELSE gy
        gapCross == IF isRow THEN gy ELSE gx
    IN  With(alignContent(cs, lines, crossLimit, gapCross), LAMBDA ac :
          Tuple([li \in 1..Len(lines) |->
            placeLine(cs, kids, lines[li], isRow, mainLimit, gapMain,
                      ac.extraPerLine,
                      crossOffsetAt(lines, li, ac.crossStartOffset,
                                    ac.extraPerLine, gapCross),
                      ox, oy, pl, pt)]))

----------------------------------------------------------------------------
(* positionAbsolute and layoutFlex                                         *)

\* Out-of-flow geometry that leaves the margins out.
absoluteGeomNoMargins(n, innerW, innerH, pl, pt, ox, oy) ==
    LET nat == naturalSize(n)
        cx0 == ox + pl
        cy0 == oy + pt
    IN  [x |-> IF n.st.Left # Nil THEN cx0 + Deref(n.st.Left)
               ELSE IF n.st.Right # Nil THEN cx0 + innerW - Deref(n.st.Right) - nat.w
               ELSE cx0,
         y |-> IF n.st.Top # Nil THEN cy0 + Deref(n.st.Top)
               ELSE IF n.st.Bottom # Nil THEN cy0 + innerH - Deref(n.st.Bottom) - nat.h
               ELSE cy0,
         w |-> nat.w, h |-> nat.h]

\* Out-of-flow geometry where Right and Bottom win over Left and Top.
absoluteGeomFarEdgeWins(n, innerW, innerH, pl, pt, ox, oy) ==
    LET nat == naturalSize(n)
        cx0 == ox + pl
        cy0 == oy + pt
    IN  [x |-> IF n.st.Right # Nil
               THEN cx0 + innerW - Deref(n.st.Right) - nat.w - n.st.Margin[2]
               ELSE IF n.st.Left # Nil THEN cx0 + Deref(n.st.Left) + n.st.Margin[4]
               ELSE cx0,
         y |-> IF n.st.Bottom # Nil
               THEN cy0 + innerH - Deref(n.st.Bottom) - nat.h - n.st.Margin[3]
               ELSE IF n.st.Top # Nil THEN cy0 + Deref(n.st.Top) + n.st.Margin[1]
               ELSE cy0,
         w |-> nat.w, h |-> nat.h]

\* Geometry of one out-of-flow child, relative to the padding box.
absoluteGeom(n, innerW, innerH, pl, pt, ox, oy) ==
    LET nat == naturalSize(n)
        mt == n.st.Margin[1]
        mr == n.st.Margin[2]
        mb == n.st.Margin[3]
        ml == n.st.Margin[4]
        cx0 == ox + pl
        cy0 == oy + pt
        cx1 == cx0 + innerW
        cy1 == cy0 + innerH
    IN  [x |-> IF n.st.Left # Nil THEN cx0 + Deref(n.st.Left) + ml
               ELSE IF n.st.Right # Nil THEN cx1 - Deref(n.st.Right) - nat.w - mr
               ELSE cx0,
         y |-> IF n.st.Top # Nil THEN cy0 + Deref(n.st.Top) + mt
               ELSE IF n.st.Bottom # Nil THEN cy1 - Deref(n.st.Bottom) - nat.h - mb
               ELSE cy0,
         w |-> nat.w, h |-> nat.h]

positionAbsolute(kids, innerW, innerH, pl, pt, ox, oy) ==
    [i \in 1..Len(kids) |->
        IF isAbsolute(kids[i])
        THEN LET g == absoluteGeom(kids[i], innerW, innerH, pl, pt, ox, oy)
             IN  [kids[i] EXCEPT !.x = g.x, !.y = g.y, !.w = g.w, !.h = g.h]
        ELSE kids[i]]

\* Sum of the line cross extents without the gaps between lines.
crossSumNoGaps(lines, gap) ==
    SumSeq([k \in 1..Len(lines) |-> lines[k].cross])

\* Sum of the line cross extents plus the gaps between lines.
crossSum(lines, gap) ==
    SumSeq([k \in 1..Len(lines) |->
              lines[k].cross + (IF k < Len(lines) THEN gap ELSE 0)])

\* A line length that counts the gap before every item after the first.
lineMainAllGaps(kids, ln, gapMain) ==
    SumSeq([k \in 1..Len(ln.items) |->
              baseMainCross(kids[ln.items[k]], FALSE).main
              + (IF k > 1 THEN gapMain ELSE 0)])

\* Main length of a line of a Column: items plus the gaps not ignored.
lineMainOf(kids, ln, gapMain) ==
    SumSeq([k \in 1..Len(ln.items) |->
              baseMainCross(kids[ln.items[k]], FALSE).main
              + (IF k > 1 /\ ~kids[ln.items[k]].st.IgnoreGapBefore
                 THEN gapMain ELSE 0)])

RECURSIVE maxLineMain(_, _, _, _)
maxLineMain(kids, lines, k, gapMain) ==
    IF k = 0 THEN 0
    ELSE LET prev == maxLineMain(kids, lines, k - 1, gapMain)
             lm == lineMainOf(kids, lines[k], gapMain)
         IN  IF lm > prev THEN lm ELSE prev

\* Content size after the auto-size feedback of layoutFlex.
autoInnerH(cs, kids, lines, isRow, innerH, gy) ==
    IF cs.Height = 0 /\ isRow THEN crossSum(lines, gy)
    ELSE IF cs.Height = 0 /\ ~isRow THEN maxLineMain(kids, lines, Len(lines), gy)
    ELSE innerH

autoInnerW(cs, lines, isRow, innerW, gx) ==
    IF cs.Width = 0 /\ ~isRow THEN crossSum(lines, gx) ELSE innerW

\* Nodes of the lines with the geometry placeLines wrote into them.
applyPlaced(kids, placed) ==
    With(UNION {{placed[li].geom[k] : k \in 1..Len(placed[li].geom)} :
                li \in 1..Len(placed)},
         LAMBDA all :
         Tuple([i \in 1..Len(kids) |->
            IF \E g \in all : g.i = i
            THEN LET g == CHOOSE g \in all : g.i = i
                 IN  [kids[i] EXCEPT !.x = g.x, !.y = g.y, !.w = g.w, !.h = g.h]
            ELSE kids[i]]))

\* A content box for positionAbsolute that is the estimate of computeInner.
absoluteBoxEstimate(ci, innerW, innerH) == [w |-> ci.innerW, h |-> ci.innerH]

\* The content size positionAbsolute is called with: the one left by the
\* auto-size resolution.
absoluteBox(ci, innerW, innerH) == [w |-> innerW, h |-> innerH]

\* layoutFlex: the whole pass.  kids: the nodes afterwards; w, h: the outer
\* size it caches; the rest are its locals.
layoutFlex(cs, kids, ox, oy) ==
    With(cs.Direction = Row, LAMBDA isRow :
    With(computeInner(cs, kids, isRow), LAMBDA ci :
    With(IF isRow THEN ci.innerW ELSE ci.innerH, LAMBDA mainLimit :
    With(buildLines(cs, kids, isRow, mainLimit, ci.gx, ci.gy), LAMBDA lines :
    With(autoInnerH(cs, kids, lines, isRow, ci.innerH, ci.gy), LAMBDA innerH :
    With(autoInnerW(cs, lines, isRow, ci.innerW, ci.gx), LAMBDA innerW :
    With(placeLines(cs, kids, lines, isRow, innerW, innerH,
                    ci.pl, ci.pt, ci.gx, ci.gy, ox, oy), LAMBDA placed :
    With(applyPlaced(kids, placed), LAMBDA kids1 :
    With(absoluteBox(ci, innerW, innerH), LAMBDA box :
       [kids |-> Tuple(positionAbsolute(kids1, box.w, box.h, ci.pl, ci.pt, ox, oy)),
        w |-> innerW + cs.Padding[4] + cs.Padding[2],
        h |-> innerH + cs.Padding[1] + cs.Padding[3],
        innerW |-> innerW, innerH |-> innerH,
        isRow |-> isRow, mainLimit |-> mainLimit,
        lines |-> lines, placed |-> placed])))))))))

\* A dirty-only check, as a plain dirty-flag cache would make.
needsLayoutDirtyOnly(d, cw, ch) == d

\* ensureLayout runs layoutFlex when the container is dirty or 0x0.
needsLayout(d, cw, ch) == d \/ (cw = 0 /\ ch = 0)

----------------------------------------------------------------------------
(* Inputs                                                                  *)

\* Most children a container holds.
MaxChildren == 3

\* The zero ItemStyle and ContainerStyle of Go.
ZeroItem ==
    [Margin |-> <<0, 0, 0, 0>>, Width |-> 0, Height |-> 0,
     FlexGrow |-> 0, FlexShrink |-> 0, FlexBasis |-> 0, AlignSelf |-> Nil,
     Position |-> PosRelative, Top |-> Nil, Right |-> Nil, Bottom |-> Nil,
     Left |-> Nil, ZIndex |-> 0, IgnoreGapBefore |-> FALSE]

ZeroStyle ==
    [Direction |-> Row, Wrap |-> FALSE, Padding |-> <<0, 0, 0, 0>>,
     Gap |-> [X |-> 0, Y |-> 0], Justify |-> JustifyStart,
     AlignItems |-> AlignItemsStart, AlignContent |-> AlignItemsStart,
     Width |-> 0, Height |-> 0]

\* A shape of the given kind and intrinsic size, with the style it is added with.
Input(kind, sw, sh, st) == [kind |-> kind, sw |-> sw, sh |-> sh, st |-> st]

\* Shapes and item styles handed to Add.
AddInputs ==
    { Input(Boundable, 50, 20, [ZeroItem EXCEPT !.ZIndex = 1]),
      Input(BoundedShape, 30, 30, [ZeroItem EXCEPT !.IgnoreGapBefore = TRUE]),
      Input(BoundedShape, 20, 20, [ZeroItem EXCEPT !.Position = PosAbsolute,
                                                   !.Right = Some(5),
                                                   !.Bottom = Some(5)]) }

\* Container styles handed to NewAutoLayout and SetStyle.
Styles ==
    { [ZeroStyle EXCEPT !.Direction = Column, !.Gap = [X |-> 0, Y |-> 10]],
      [ZeroStyle EXCEPT !.Wrap = TRUE, !.Width = 100,
                        !.Gap = [X |-> 10, Y |-> 5],
                        !.Padding = <<5, 5, 5, 5>>],
      [ZeroStyle EXCEPT !.Width = 200, !.Height = 60,
                        !.Gap = [X |-> 10, Y |-> 0],
                        !.Padding = <<5, 5, 5, 5>>,
                        !.Justify = JustifySpaceBetween,
                        !.AlignItems = AlignItemsCenter] }

\* Container origins.
Origins == {<<10, 20>>}

----------------------------------------------------------------------------
(* The container as a state machine                                        *)

noTrace ==
    [ran |-> FALSE, order |-> <<>>, isRow |-> TRUE, mainLimit |-> 0,
     innerW |-> 0, innerH |-> 0, lines |-> <<>>, placed |-> <<>>]

\* The locals of a layoutFlex run over kids.
traceOf(L, kids) ==
    [ran |-> TRUE, order |-> [i \in 1..Len(kids) |-> kids[i].id],
     isRow |-> L.isRow, mainLimit |-> L.mainLimit,
     innerW |-> L.innerW, innerH |-> L.innerH,
     lines |-> L.lines, placed |-> L.placed]

\* node{shape: s, st: st}: meas/pos are the shape when it is a BoundedShape.
newNode(in, id) ==
    [id |-> id, kind |-> in.kind, sw |-> in.sw, sh |-> in.sh,
     sx |-> 0, sy |-> 0, st |-> in.st, x |-> 0, y |-> 0, w |-> 0, h |-> 0]

\* NewAutoLayout(x, y, style)
NewAutoLayout(ox, oy, st) ==
    /\ x = ox /\ y = oy
    /\ style = st
    /\ children = <<>>
    /\ w = 0 /\ h = 0
    /\ dirty = TRUE
    /\ trace = noTrace
    /\ painted = <<>>
    /\ hist = [op |-> "NewAutoLayout", ret |-> Nil, again |-> Nil]
    /\ basis = Nil

Init ==
    \E o \in Origins, st \in Styles : NewAutoLayout(o[1], o[2], st)

\* op: the operation, ret: what it returned (Nil: nothing), again: what the
\* operation right before it returned when that was the same operation.
record(op, ret) ==
    [op |-> op, ret |-> ret,
     again |-> IF hist.op = op /\ ret # Nil THEN Some(hist.ret) ELSE Nil]

\* Add(s, st)
Add ==
    /\ Len(children) < MaxChildren
    /\ \E in \in AddInputs :
          children' = Append(children, newNode(in, Len(children) + 1))
    /\ w' = 0 /\ h' = 0
    /\ dirty' = TRUE
    /\ trace' = noTrace
    /\ painted' = <<>>
    /\ hist' = record("Add", Nil)
    /\ UNCHANGED <<x, y, style, basis>>

\* SetStyle(st)
SetStyleTo(st) ==
    /\ style' = st
    /\ w' = 0 /\ h' = 0
    /\ dirty' = TRUE
    /\ trace' = noTrace
    /\ painted' = <<>>
    /\ hist' = record("SetStyle", Nil)
    /\ UNCHANGED <<x, y, children, basis>>

SetStyle == \E st \in Styles : SetStyleTo(st)

\* What a layout pass reads of the container: the style and which children.
inputOf(st, kids) == [style |-> st, ids |-> {kids[i].id : i \in 1..Len(kids)}]

\* ensureLayout(): layoutFlex when needed; what it leaves in the container.
ensureLayout ==
    IF needsLayout(dirty, w, h)
    THEN With(layoutFlex(style, children, x, y), LAMBDA L :
              [kids |-> L.kids, w |-> L.w, h |-> L.h, trace |-> traceOf(L, children),
               basis |-> Some(inputOf(style, children))])
    ELSE [kids |-> children, w |-> w, h |-> h, trace |-> noTrace, basis |-> basis]

\* Size(): ensureLayout, then the cached outer size.
Size ==
    \E e \in {ensureLayout} :
        /\ children' = e.kids
        /\ w' = e.w
        /\ h' = e.h
        /\ dirty' = FALSE
        /\ trace' = e.trace
        /\ painted' = <<>>
        /\ hist' = record("Size", Some(<<e.w, e.h>>))
        /\ basis' = e.basis
        /\ UNCHANGED <<x, y, style>>

\* The place of item i under a sort that reverses equal ZIndex values.
zPlaceUnstable(kids, i) ==
    Cardinality({j \in 1..Len(kids) : kids[j].st.ZIndex < kids[i].st.ZIndex})
    + Cardinality({j \in (i + 1)..Len(kids) : kids[j].st.ZIndex = kids[i].st.ZIndex})
    + 1

\* sort.SliceStable(al.children, ZIndex ascending): the place of item i.
zPlace(kids, i) ==
    Cardinality({j \in 1..Len(kids) : kids[j].st.ZIndex < kids[i].st.ZIndex})
    + Cardinality({j \in 1..(i - 1) : kids[j].st.ZIndex = kids[i].st.ZIndex})
    + 1

sortByZIndex(kids) ==
    [p \in 1..Len(kids) |-> kids[CHOOSE i \in 1..Len(kids) : zPlace(kids, i) = p]]

\* A hand-over that never uses SetBounds.
deliverSeparately(n) ==
    (IF n.kind # PlainShape
     THEN <<[id |-> n.id, call |-> "SetPosition", args |-> <<n.x, n.y>>]>>
     ELSE <<>>)
    \o (IF n.kind \in {Resizable, Boundable}
        THEN <<[id |-> n.id, call |-> "SetSize", args |-> <<n.w, n.h>>]>>
        ELSE <<>>)
    \o <<[id |-> n.id, call |-> "Draw", args |-> <<>>]>>

\* The calls one child receives in Draw, in order.
deliver(n) ==
    IF n.kind = Boundable
    THEN <<[id |-> n.id, call |-> "SetBounds", args |-> <<n.x, n.y, n.w, n.h>>],
           [id |-> n.id, call |-> "Draw", args |-> <<>>]>>
    ELSE (IF n.kind # PlainShape
          THEN <<[id |-> n.id, call |-> "SetPosition", args |-> <<n.x, n.y>>]>>
          ELSE <<>>)
         \o (IF n.kind = Resizable
             THEN <<[id |-> n.id, call |-> "SetSize", args |-> <<n.w, n.h>>]>>
             ELSE <<>>)
         \o <<[id |-> n.id, call |-> "Draw", args |-> <<>>]>>

\* The shape after those calls: SetBounds and SetSize change the size it
\* reports, SetBounds and SetPosition its position.
delivered(n) ==
    IF n.kind = Boundable
    THEN [n EXCEPT !.sx = n.x, !.sy = n.y, !.sw = n.w, !.sh = n.h]
    ELSE IF n.kind = Resizable
    THEN [n EXCEPT !.sx = n.x, !.sy = n.y, !.sw = n.w, !.sh = n.h]
    ELSE IF n.kind = BoundedShape
    THEN [n EXCEPT !.sx = n.x, !.sy = n.y]
    ELSE n

RECURSIVE allCalls(_, _)
allCalls(kids, i) ==
    IF i = 0 THEN <<>> ELSE allCalls(kids, i - 1) \o deliver(kids[i])

\* A Draw whose loop sees the nodes as they were before ensureLayout.
handedOverStale(e) == children

\* The nodes the loop of Draw walks: al.children after ensureLayout.
handedOver(e) == e.kids

\* Draw(base, overlay): ensureLayout, the in-place stable sort, then every
\* child is handed its bounds and painted.
Draw ==
    \E e \in {ensureLayout} :
      \E sorted \in {sortByZIndex(handedOver(e))} :
        /\ children' = [i \in 1..Len(sorted) |-> delivered(sorted[i])]
        /\ w' = e.w
        /\ h' = e.h
        /\ dirty' = FALSE
        /\ trace' = e.trace
        /\ painted' = allCalls(sorted, Len(sorted))
        /\ hist' = record("Draw", Nil)
        /\ basis' = e.basis
        /\ UNCHANGED <<x, y, style>>

Next == Add \/ SetStyle \/ Size \/ Draw

Spec == Init /\ [][Next]_vars

----------------------------------------------------------------------------
(* Properties of the orchestrator                                          *)

\* The registered children in the order of their Add calls.
regOrder(kids) ==
    [p \in 1..Len(kids) |-> kids[CHOOSE i \in 1..Len(kids) : kids[i].id = p]]

nodeById(kids, id) == kids[CHOOSE i \in 1..Len(kids) : kids[i].id = id]

boundsOf(n) == <<n.x, n.y, n.w, n.h>>

\* C1: the container is dirty right after Add and SetStyle and clean after
\* Size and Draw, and Size() returns the outer size a layout pass over the
\* current style and the registered children (in registration order, the
\* order a layout pass is specified to use) computes.
C1_SizeIsCurrent ==
    /\ hist.op \in {"Add", "SetStyle"} => dirty
    /\ hist.op \in {"Size", "Draw"} => ~dirty
    /\ hist.op = "Size" =>
          LET L == layoutFlex(style, regOrder(children), x, y)
          IN  hist.ret = Some(<<L.w, L.h>>)

C3_LayoutInRegistrationOrder ==
    [][(hist'.op = "Draw" /\ trace'.ran) =>
          LET fresh == layoutFlex(style, regOrder(children), x, y).kids
          IN  \A id \in 1..Len(children) :
                 boundsOf(nodeById(children', id)) = boundsOf(nodeById(fresh, id))]_vars

\* Ids of the children painted by the last Draw, in paint order.
paintOrder ==
    LET draws == SelectSeq(painted, LAMBDA e : e.call = "Draw")
    IN  [k \in 1..Len(draws) |-> draws[k].id]

zOf(id) == nodeById(children, id).st.ZIndex

\* C4: a Draw paints every registered child exactly once, by ascending
\* ZIndex, and children of equal ZIndex in registration order.
C4_PaintOrder ==
    hist.op = "Draw" =>
        /\ Len(paintOrder) = Len(children)
        /\ {paintOrder[k] : k \in 1..Len(paintOrder)} = 1..Len(children)
        /\ \A p, q \in 1..Len(paintOrder) :
              p < q => \/ zOf(paintOrder[p]) < zOf(paintOrder[q])
                       \/ /\ zOf(paintOrder[p]) = zOf(paintOrder[q])
                          /\ paintOrder[p] < paintOrder[q]

\* A Draw of three children, two of equal ZIndex registered after one of
\* higher ZIndex, which is painted last.
C4_Witness ==
    /\ hist.op = "Draw"
    /\ Len(paintOrder) = 3
    /\ zOf(1) > zOf(2) /\ zOf(2) = zOf(3)
    /\ paintOrder = <<2, 3, 1>>

----------------------------------------------------------------------------
(* Layout passes over containers built with NewAutoLayout and Add          *)

\* Most children of a container whose layout is examined.
MaxItems == 3

\* The container right after NewAutoLayout(o, st) and one Add per input.
Built(o, st, ins) ==
    /\ x = o[1] /\ y = o[2]
    /\ style = st
    /\ children = [i \in 1..Len(ins) |-> newNode(ins[i], i)]
    /\ w = 0 /\ h = 0
    /\ dirty = TRUE
    /\ trace = noTrace
    /\ painted = <<>>
    /\ hist = [op |-> IF Len(ins) = 0 THEN "NewAutoLayout" ELSE "Add",
               ret |-> Nil, again |-> Nil]
    /\ basis = Nil

SeqsUpTo(S, n) == UNION {[1..k -> S] : k \in 0..n}

NextLayout == Size \/ Draw

\* Flexible items: base sizes, grow and shrink factors, a margin.
FlexInputs ==
    { Input(Boundable, 25, 10, ZeroItem),
      Input(Boundable, 25, 10, [ZeroItem EXCEPT !.FlexGrow = 1]),
      Input(Boundable, 10, 25, [ZeroItem EXCEPT !.FlexGrow = 2, !.FlexShrink = 3]),
      Input(Boundable, 10, 10, [ZeroItem EXCEPT !.FlexGrow = 1,
                                                !.Margin = <<1, 2, 3, 4>>]),
      Input(Boundable, 60, 60, [ZeroItem EXCEPT !.FlexShrink = 1]),
      Input(BoundedShape, 5, 5, [ZeroItem EXCEPT !.FlexBasis = 40,
                                                 !.FlexGrow = 3,
                                                 !.IgnoreGapBefore = TRUE]),
      Input(PlainShape, 0, 0, [ZeroItem EXCEPT !.FlexShrink = 2]) }

\* Containers with an explicit main-axis size, wider and narrower than
\* their content.
FlexStyles ==
    { [ZeroStyle EXCEPT !.Width = 100, !.Height = 40,
                        !.Gap = [X |-> 5, Y |-> 0]],
      [ZeroStyle EXCEPT !.Width = 50, !.Padding = <<0, 5, 0, 5>>,
                        !.Gap = [X |-> 3, Y |-> 0],
                        !.Justify = JustifyCenter],
      [ZeroStyle EXCEPT !.Direction = Column, !.Height = 77,
                        !.Gap = [X |-> 0, Y |-> 4],
                        !.AlignItems = AlignItemsStretch],
      [ZeroStyle EXCEPT !.Direction = Column, !.Height = 30, !.Width = 30,
                        !.Justify = JustifySpaceBetween] }

InitFlex ==
    \E o \in Origins, st \in FlexStyles, ins \in SeqsUpTo(FlexInputs, MaxItems) :
        Built(o, st, ins)

SpecFlex == InitFlex /\ [][NextLayout]_vars

\* Resolved main size of the item of a line, read from the node.
mainSizeOf(id) ==
    IF trace.isRow THEN nodeById(children, id).w ELSE nodeById(children, id).h

\* Sum over the items of a line of resolved main size minus base main size.
grownBy(p) ==
    SumSeq([k \in 1..Len(p.recs) |->
              mainSizeOf(p.recs[k].id) - p.recs[k].baseMainContent])

\* Items, margins and applied gaps of a line.
filled(p) ==
    SumSeq([k \in 1..Len(p.recs) |->
              mainSizeOf(p.recs[k].id) + mainMargins(p.recs[k], trace.isRow)])
    + p.totalGaps

\* C5: in a line with flexFree > 0 and total FlexGrow > 0 the increases sum
\* to flexFree, each is floor(flexFree * grow / totalGrow) or one more, an
\* item with FlexGrow 0 keeps its base size, and the line fills its budget.
C5_GrowConservesFreeSpace ==
    trace.ran =>
        \A li \in 1..Len(trace.placed) :
            LET p == trace.placed[li]
            IN  (p.flexFree > 0 /\ p.totalGrow > 0) =>
                  /\ grownBy(p) = p.flexFree
                  /\ \A k \in 1..Len(p.recs) :
                        LET r == p.recs[k]
                            inc == mainSizeOf(r.id) - r.baseMainContent
                            fl == (p.flexFree * r.grow) \div p.totalGrow
                        IN  /\ inc \in {fl, fl + 1}
                            /\ r.grow = 0 => inc = 0
                  /\ filled(p) = p.effectiveLimit

\* A line of three growing items whose shares are not whole pixels.
C5_Witness ==
    /\ trace.ran
    /\ \E li \in 1..Len(trace.placed) :
          LET p == trace.placed[li]
          IN  /\ p.flexFree > 0 /\ p.totalGrow > 0
              /\ Len(p.recs) = 3
              /\ \E k \in 1..3 : (p.flexFree * p.recs[k].grow) % p.totalGrow # 0
              /\ \E k \in 1..3 : p.recs[k].grow = 0

\* Sum over the items of a line of base main size minus resolved main size.
shrunkBy(p) == -grownBy(p)

\* C6 as stated: in a line with flexFree < 0 the decreases sum to -flexFree
\* for any shrink factors and base sizes, and the line fills its budget.
C6_ShrinkConservesDeficit ==
    trace.ran =>
        \A li \in 1..Len(trace.placed) :
            LET p == trace.placed[li]
            IN  p.flexFree < 0 =>
                  /\ shrunkBy(p) = -p.flexFree
                  /\ filled(p) = p.effectiveLimit

\* C6 amended: the decreases sum to -flexFree and the line fills its budget
\* when no item is resolved to size 0; an item whose share exceeds its base
\* size is clamped at 0, and then the decreases sum to at most -flexFree.
C6_ShrinkConservesUnlessClamped ==
    trace.ran =>
        \A li \in 1..Len(trace.placed) :
            LET p == trace.placed[li]
            IN  p.flexFree < 0 =>
                  /\ shrunkBy(p) <= -p.flexFree
                  /\ \A k \in 1..Len(p.recs) : mainSizeOf(p.recs[k].id) >= 0
                  /\ (\A k \in 1..Len(p.recs) : mainSizeOf(p.recs[k].id) > 0) =>
                        /\ shrunkBy(p) = -p.flexFree
                        /\ filled(p) = p.effectiveLimit

\* A line of three items, all shrunk and none to 0, with shares that are
\* not whole pixels.
C6_Witness ==
    /\ trace.ran
    /\ \E li \in 1..Len(trace.placed) :
          LET p == trace.placed[li]
          IN  /\ p.flexFree < 0
              /\ Len(p.recs) = 3
              /\ \A k \in 1..3 : /\ mainSizeOf(p.recs[k].id) > 0
                                 /\ mainSizeOf(p.recs[k].id) < p.recs[k].baseMainContent
              /\ \E k \in 1..3 : ((-p.flexFree) * p.recs[k].shrink) % p.totalShrink # 0

----------------------------------------------------------------------------
(* Line building, wrapping and gap suppression                             *)

\* Fixed-size items: some fit a line together, some only without the gap.
WrapInputs ==
    { Input(BoundedShape, 40, 20, ZeroItem),
      Input(BoundedShape, 50, 30, ZeroItem),
      Input(BoundedShape, 50, 10, [ZeroItem EXCEPT !.IgnoreGapBefore = TRUE]),
      Input(BoundedShape, 10, 40, [ZeroItem EXCEPT !.Margin = <<0, 2, 0, 3>>]),
      Input(Boundable, 20, 20, [ZeroItem EXCEPT !.Position = PosAbsolute,
                                                !.Right = Some(0),
                                                !.Bottom = Some(0)]) }

\* Containers with and without wrapping, in both directions.
WrapStyles ==
    { [ZeroStyle EXCEPT !.Wrap = TRUE, !.Width = 100,
                        !.Gap = [X |-> 10, Y |-> 5]],
      [ZeroStyle EXCEPT !.Width = 110, !.Height = 50,
                        !.Padding = <<0, 5, 0, 5>>,
                        !.Gap = [X |-> 10, Y |-> 5]],
      [ZeroStyle EXCEPT !.Wrap = TRUE, !.Direction = Column, !.Height = 50,
                        !.Gap = [X |-> 5, Y |-> 10]],
      [ZeroStyle EXCEPT !.Direction = Column,
                        !.Gap = [X |-> 0, Y |-> 10]],
      [ZeroStyle EXCEPT !.Wrap = TRUE, !.Width = 200, !.Height = 100,
                        !.Gap = [X |-> 10, Y |-> 0],
                        !.Justify = JustifyEnd] }

InitWrap ==
    \E o \in Origins, st \in WrapStyles, ins \in SeqsUpTo(WrapInputs, MaxItems) :
        Built(o, st, ins)

SpecWrap == InitWrap /\ [][NextLayout]_vars

\* The nodes in the order the last layout pass saw them.
laidOut == [i \in 1..Len(trace.order) |-> nodeById(children, trace.order[i])]

\* The shapes still report the sizes the last layout pass measured.
shapesAsLaidOut ==
    \/ hist.op = "Size"
    \/ \A i \in 1..Len(children) : children[i].kind \in {PlainShape, BoundedShape}

mainGap == IF trace.isRow THEN style.Gap.X ELSE style.Gap.Y

\* Base main length of child i with its margins, and the gap before it.
baseLen(i) == baseMainCross(laidOut[i], trace.isRow).main
gapBefore(i) == IF laidOut[i].st.IgnoreGapBefore THEN 0 ELSE mainGap

\* Length of the first k of the given items put on one line.
lineLen(items, k) ==
    SumSeq([m \in 1..k |-> baseLen(items[m])
                           + (IF m > 1 THEN gapBefore(items[m]) ELSE 0)])

\* Positions of the in-flow children, in child-list order.
inFlowSeq == SelectSeq([i \in 1..Len(laidOut) |-> i],
                       LAMBDA i : ~isAbsolute(laidOut[i]))

lineItems(lines) == [li \in 1..Len(lines) |-> lines[li].items]

\* C7: with Wrap enabled an item starts a new line exactly when the line
\* before it holds an item and line length + item + gap (no gap with
\* IgnoreGapBefore) is strictly greater than the main-axis limit; two items
\* that exceed the limit give two lines, two that fit exactly give one.
C7_WrapThreshold ==
    (trace.ran /\ style.Wrap /\ shapesAsLaidOut) =>
        /\ \A li \in 1..Len(trace.lines) :
              LET it == trace.lines[li].items
              IN  /\ Len(it) >= 1
                  /\ \A k \in 2..Len(it) :
                        lineLen(it, k - 1) + baseLen(it[k]) + gapBefore(it[k])
                            <= trace.mainLimit
                  /\ li > 1 =>
                        LET prev == trace.lines[li - 1].items
                        IN  lineLen(prev, Len(prev)) + baseLen(it[1]) + gapBefore(it[1])
                                > trace.mainLimit
        /\ Len(inFlowSeq) = 2 =>
              LET a == inFlowSeq[1]
                  b == inFlowSeq[2]
              IN  IF baseLen(a) + baseLen(b) + gapBefore(b) > trace.mainLimit
                  THEN lineItems(trace.lines) = <<<<a>>, <<b>>>>
                  ELSE lineItems(trace.lines) = <<<<a, b>>>>

\* Two items fill the first line exactly and a third one wraps.
C7_Witness ==
    /\ trace.ran /\ style.Wrap /\ shapesAsLaidOut
    /\ Len(trace.lines) = 2
    /\ Len(trace.lines[1].items) = 2
    /\ trace.lines[1].base = trace.mainLimit
    /\ gapBefore(trace.lines[1].items[2]) > 0

\* C8 as stated: without Wrap buildLines yields exactly one line for every
\* child list.
C8_NoWrapOneLine ==
    (trace.ran /\ ~style.Wrap) => Len(trace.lines) = 1

\* C8 amended: without Wrap buildLines yields exactly one line, holding all
\* in-flow children, when there is an in-flow child, and no line otherwise.
C8_NoWrapOneLineIfAny ==
    (trace.ran /\ ~style.Wrap) =>
        IF Len(inFlowSeq) > 0
        THEN lineItems(trace.lines) = <<inFlowSeq>>
        ELSE trace.lines = <<>>

\* Three in-flow children longer than the limit, kept on one line.
C8_Witness ==
    /\ trace.ran /\ ~style.Wrap
    /\ Len(trace.lines) = 1
    /\ Len(trace.lines[1].items) = 3
    /\ trace.lines[1].base > trace.mainLimit
    /\ Len(children) = 3

\* Items of a line, other than the first, with IgnoreGapBefore set.
suppressed(p) ==
    Cardinality({k \in 2..Len(p.recs) : p.recs[k].ignoreGapBefore})

\* C9: the suppressed gaps recorded on a line count its items, other than
\* the first, with IgnoreGapBefore, and the line's budget is the axis content
\* size minus that number of main gaps.
C9_SuppressedGapsReduceBudget ==
    trace.ran =>
        \A li \in 1..Len(trace.placed) :
            LET p == trace.placed[li]
                content == IF trace.isRow THEN trace.innerW ELSE trace.innerH
            IN  /\ p.skippedGaps = suppressed(p)
                /\ p.effectiveLimit = MaxInt(0, content - suppressed(p) * mainGap)

\* Main-axis position of a node.
mainPos(n) == IF trace.isRow THEN n.x ELSE n.y

\* The layout pass over the same children with IgnoreGapBefore set on child i.
withFlag(i) ==
    layoutFlex(style, [laidOut EXCEPT ![i].st.IgnoreGapBefore = TRUE], x, y)

\* Child i (item k of line p) and the later items of the line move one main
\* gap toward the line start, the earlier ones stay, and the line's consumed
\* length drops by one main gap.
shiftsByGap(p, k, v) ==
    /\ \A m \in 1..Len(p.items) :
          mainPos(v.kids[p.items[m]])
              = mainPos(laidOut[p.items[m]]) - (IF m >= k THEN mainGap ELSE 0)
    /\ \E q \in 1..Len(v.placed) :
          /\ p.items[k] \in {v.placed[q].items[m] : m \in 1..Len(v.placed[q].items)}
          /\ v.placed[q].used = p.used - mainGap

\* No child changes its bounds.
sameBounds(v) ==
    \A i \in 1..Len(laidOut) : boundsOf(v.kids[i]) = boundsOf(laidOut[i])

\* A line laid out with JustifyStart and without growth or shrinkage.
plainLine(p) ==
    style.Justify = JustifyStart /\ p.flexFree >= 0 /\ p.totalGrow = 0

\* C10 as stated: setting IgnoreGapBefore on an item that is not the first of
\* its line moves it and the later items of the line one main gap closer to
\* the line start and reduces the consumed length by one main gap; on the
\* first item of a line it changes no position.
C10_FlagShiftsLine ==
    (trace.ran /\ shapesAsLaidOut) =>
        \A li \in 1..Len(trace.placed) :
            LET p == trace.placed[li]
            IN  plainLine(p) =>
                  \A k \in 1..Len(p.items) :
                      ~p.recs[k].ignoreGapBefore =>
                          IF k > 1 THEN shiftsByGap(p, k, withFlag(p.items[k]))
                          ELSE sameBounds(withFlag(p.items[k]))

\* C10 amended: the same, provided the flag leaves the partition into lines
\* as it was, which is so whenever Wrap is disabled and for the first in-flow
\* child; with Wrap enabled the flag may let an item (or a later one) fit the
\* line before, and then whole lines move.
C10_FlagShiftsLineSamePartition ==
    (trace.ran /\ shapesAsLaidOut) =>
        \A li \in 1..Len(trace.placed) :
            LET p == trace.placed[li]
            IN  plainLine(p) =>
                  \A k \in 1..Len(p.items) :
                      ~p.recs[k].ignoreGapBefore =>
                          LET v == withFlag(p.items[k])
                              same == lineItems(v.lines) = lineItems(trace.lines)
                          IN  /\ (~style.Wrap \/ (li = 1 /\ k = 1)) => same
                              /\ same => IF k > 1 THEN shiftsByGap(p, k, v)
                                         ELSE sameBounds(v)

\* A JustifyStart line of three items whose middle item has no flag yet and
\* a gap to lose.
C10_Witness ==
    /\ trace.ran /\ shapesAsLaidOut
    /\ \E li \in 1..Len(trace.placed) :
          LET p == trace.placed[li]
          IN  /\ plainLine(p)
              /\ Len(p.items) = 3
              /\ ~p.recs[2].ignoreGapBefore
              /\ mainGap > 0
              /\ lineItems(withFlag(p.items[2]).lines) = lineItems(trace.lines)

----------------------------------------------------------------------------
(* Auto-sized containers                                                   *)

\* Items with margins on both axes, a gap-skipping item, a flexible item,
\* an out-of-flow item with flex properties, a shape without intrinsic size.
AutoInputs ==
    { Input(BoundedShape, 40, 20, ZeroItem),
      Input(BoundedShape, 30, 30, [ZeroItem EXCEPT !.Margin = <<2, 3, 4, 5>>]),
      Input(BoundedShape, 20, 10, [ZeroItem EXCEPT !.IgnoreGapBefore = TRUE,
                                                   !.Margin = <<1, 0, 1, 0>>]),
      Input(Boundable, 10, 10, [ZeroItem EXCEPT !.FlexGrow = 1, !.FlexShrink = 1]),
      Input(Boundable, 20, 20, [ZeroItem EXCEPT !.Position = PosAbsolute,
                                                !.Left = Some(5), !.Top = Some(5),
                                                !.FlexGrow = 1, !.FlexBasis = 100,
                                                !.AlignSelf = Some(AlignItemsStretch)]),
      Input(PlainShape, 0, 0, [ZeroItem EXCEPT !.Width = 25, !.Height = 15]) }

\* Containers auto-sized on one axis or both, and with explicit sizes that
\* do and do not leave room for the padding.
AutoStyles ==
    { [ZeroStyle EXCEPT !.Direction = Column, !.Gap = [X |-> 0, Y |-> 10]],
      [ZeroStyle EXCEPT !.Gap = [X |-> 7, Y |-> 0],
                        !.Padding = <<1, 2, 3, 4>>],
      [ZeroStyle EXCEPT !.Wrap = TRUE, !.Width = 80,
                        !.Gap = [X |-> 5, Y |-> 6]],
      [ZeroStyle EXCEPT !.Direction = Column, !.Wrap = TRUE, !.Height = 60,
                        !.Gap = [X |-> 5, Y |-> 6],
                        !.AlignItems = AlignItemsStretch],
      [ZeroStyle EXCEPT !.Width = 120, !.Height = 50,
                        !.Padding = <<5, 5, 5, 5>>],
      [ZeroStyle EXCEPT !.Direction = Column, !.Wrap = TRUE,
                        !.Width = 30, !.Height = 40,
                        !.Padding = <<20, 20, 20, 20>>] }

InitAuto ==
    \E o \in Origins, st \in AutoStyles, ins \in SeqsUpTo(AutoInputs, MaxItems) :
        Built(o, st, ins)

SpecAuto == InitAuto /\ [][NextLayout]_vars

\* The layout pass over the children of the last pass with IgnoreGapBefore
\* of child i set to f.
flagSet(i, f) ==
    layoutFlex(style, [laidOut EXCEPT ![i].st.IgnoreGapBefore = f], x, y)

\* An auto-height Column without Wrap and with exactly two children, both
\* in flow.
twoInColumn ==
    /\ trace.ran /\ shapesAsLaidOut
    /\ ~trace.isRow /\ style.Height = 0 /\ ~style.Wrap
    /\ Len(laidOut) = 2 /\ Len(inFlowSeq) = 2

\* C11: in an auto-height Column without Wrap, IgnoreGapBefore on the second
\* of two children makes the reported height one vertical gap smaller than
\* without the flag, and puts the second child right after the first
\* (y2 = y1 + h1 + bottom margin of the first + top margin of the second).
C11_ColumnFlagShrinksHeight ==
    twoInColumn =>
        LET on == flagSet(2, TRUE)
            off == flagSet(2, FALSE)
            cur == IF laidOut[2].st.IgnoreGapBefore THEN on ELSE off
        IN  /\ on.h = off.h - style.Gap.Y
            /\ on.kids[2].y = on.kids[1].y + on.kids[1].h
                              + laidOut[1].st.Margin[3] + laidOut[2].st.Margin[1]
            /\ off.kids[2].y = on.kids[2].y + style.Gap.Y
            /\ h = cur.h
            /\ hist.op = "Size" => hist.ret = Some(<<cur.w, cur.h>>)
            /\ \A i \in 1..2 : boundsOf(laidOut[i]) = boundsOf(cur.kids[i])

\* Size() of a two-child column whose second child, with a top margin,
\* skips a gap of 10.
C11_Witness ==
    /\ twoInColumn
    /\ hist.op = "Size"
    /\ style.Gap.Y = 10
    /\ laidOut[2].st.IgnoreGapBefore
    /\ laidOut[1].st.Margin[3] + laidOut[2].st.Margin[1] > 0
    /\ h = flagSet(2, FALSE).h - 10

\* The container's main-axis / cross-axis size is auto.
mainAuto == IF trace.isRow THEN style.Width = 0 ELSE style.Height = 0
crossAuto == IF trace.isRow THEN style.Height = 0 ELSE style.Width = 0

\* Final content size on the main and on the cross axis.
mainContent == IF trace.isRow THEN trace.innerW ELSE trace.innerH
crossContent == IF trace.isRow THEN trace.innerH ELSE trace.innerW

\* C12: without Wrap and with an auto main-axis size (Row with Width 0,
\* Column with Height 0) the main content size is the sum of the in-flow
\* children's base main sizes with margins plus one main gap per adjacent
\* pair whose gap is not suppressed, so the single line has flex free space 0
\* and no child is grown or shrunk.
C12_AutoMainIsContentSum ==
    (trace.ran /\ shapesAsLaidOut /\ ~style.Wrap /\ mainAuto) =>
        /\ mainContent = lineLen(inFlowSeq, Len(inFlowSeq))
        /\ \A li \in 1..Len(trace.placed) :
              LET p == trace.placed[li]
              IN  /\ p.flexFree = 0
                  /\ \A k \in 1..Len(p.recs) :
                        mainSizeOf(p.recs[k].id) = p.recs[k].baseMainContent

\* Largest cross base size with margins among the given children.
crossExtent(items) ==
    LET S == {baseMainCross(laidOut[items[k]], trace.isRow).cross :
                k \in 1..Len(items)}
    IN  CHOOSE m \in S : \A n \in S : m >= n

\* C13: with an auto cross-axis size the final cross content size is the sum
\* of the cross extents of the lines plus one cross gap between adjacent
\* lines (0 without lines), Size() reports it plus the cross-axis padding,
\* and each line's cross extent is the largest cross base size with margins
\* among its items.
C13_AutoCrossIsLineSum ==
    (trace.ran /\ shapesAsLaidOut /\ crossAuto) =>
        LET L == Len(trace.lines)
            gapCross == IF trace.isRow THEN style.Gap.Y ELSE style.Gap.X
            pad == IF trace.isRow THEN style.Padding[1] + style.Padding[3]
                   ELSE style.Padding[4] + style.Padding[2]
            total == IF L = 0 THEN 0
                     ELSE SumSeq([li \in 1..L |-> crossExtent(trace.lines[li].items)])
                          + (L - 1) * gapCross
        IN  /\ \A li \in 1..L :
                  trace.lines[li].cross = crossExtent(trace.lines[li].items)
            /\ crossContent = total
            /\ (IF trace.isRow THEN h ELSE w) = total + pad
            /\ hist.op = "Size" => hist.ret = Some(<<w, h>>)

\* Size() of a wrapped container with two lines of different extents and a
\* cross gap between them.
C13_Witness ==
    /\ trace.ran /\ crossAuto /\ hist.op = "Size"
    /\ Len(trace.lines) = 2
    /\ trace.lines[1].cross # trace.lines[2].cross
    /\ (IF trace.isRow THEN style.Gap.Y ELSE style.Gap.X) > 0
    /\ Len(trace.lines[1].items) = 2
    /\ crossContent = trace.lines[1].cross + trace.lines[2].cross
                      + (IF trace.isRow THEN style.Gap.Y ELSE style.Gap.X)

\* C14 as stated: with explicit Width > 0 and Height > 0, Size() returns
\* exactly (Width, Height) whatever the padding and the children.
C14_ExplicitSizeKept ==
    (hist.op = "Size" /\ style.Width > 0 /\ style.Height > 0) =>
        hist.ret = Some(<<style.Width, style.Height>>)

\* C14 amended: with explicit Width > 0 and Height > 0, Size() returns
\* (max(Width, left + right padding), max(Height, top + bottom padding)):
\* exactly (Width, Height) when the padding fits inside the explicit size,
\* and the padding alone on an axis where it does not.
C14_ExplicitSizeKeptIfPaddingFits ==
    (hist.op = "Size" /\ style.Width > 0 /\ style.Height > 0) =>
        /\ hist.ret = Some(<<MaxInt(style.Width, style.Padding[4] + style.Padding[2]),
                             MaxInt(style.Height, style.Padding[1] + style.Padding[3])>>)
        /\ hist.ret = Some(<<w, h>>)
        /\ (/\ style.Padding[4] + style.Padding[2] <= style.Width
            /\ style.Padding[1] + style.Padding[3] <= style.Height)
              => hist.ret = Some(<<style.Width, style.Height>>)

\* Size() of a padded 120x50 container holding three children.
C14_Witness ==
    /\ hist.op = "Size" /\ trace.ran
    /\ style.Width = 120 /\ style.Height = 50
    /\ style.Padding = <<5, 5, 5, 5>>
    /\ Len(children) = 3 /\ Len(inFlowSeq) = 3
    /\ hist.ret = Some(<<120, 50>>)

\* The in-flow children of the last pass, on their own.
flowOnly == SelectSeq(laidOut, LAMBDA n : ~isAbsolute(n))

\* Explicit Width/Height of a child, else what its shape reports.
explicitOrIntrinsic(n) ==
    <<IF n.st.Width > 0 THEN n.st.Width ELSE IF n.kind = PlainShape THEN 0 ELSE n.sw,
      IF n.st.Height > 0 THEN n.st.Height ELSE IF n.kind = PlainShape THEN 0 ELSE n.sh>>

\* C17: absolute children are out of flow: the lines built, the bounds of
\* every in-flow child and the container's size are those of the layout of
\* the in-flow children alone, and an absolute child is sized to its natural
\* size whatever its FlexGrow, FlexShrink, FlexBasis and alignment.
C17_AbsoluteOutOfFlow ==
    (trace.ran /\ shapesAsLaidOut) =>
        LET F == layoutFlex(style, flowOnly, x, y)
        IN  /\ F.w = w /\ F.h = h
            /\ F.innerW = trace.innerW /\ F.innerH = trace.innerH
            /\ Len(F.lines) = Len(trace.lines)
            /\ \A li \in 1..Len(trace.lines) :
                  /\ [k \in 1..Len(F.lines[li].items) |->
                          inFlowSeq[F.lines[li].items[k]]] = trace.lines[li].items
                  /\ F.lines[li].base = trace.lines[li].base
                  /\ F.lines[li].cross = trace.lines[li].cross
            /\ \A j \in 1..Len(inFlowSeq) :
                  boundsOf(F.kids[j]) = boundsOf(laidOut[inFlowSeq[j]])
            /\ \A i \in 1..Len(laidOut) :
                  isAbsolute(laidOut[i]) =>
                      <<laidOut[i].w, laidOut[i].h>> = explicitOrIntrinsic(laidOut[i])

\* An auto-sized container with an absolute child, carrying flex properties
\* and stretch alignment, between two in-flow children.
C17_Witness ==
    /\ trace.ran /\ shapesAsLaidOut
    /\ style.Width = 0 /\ style.Height = 0
    /\ Len(laidOut) = 3
    /\ ~isAbsolute(laidOut[1]) /\ isAbsolute(laidOut[2]) /\ ~isAbsolute(laidOut[3])
    /\ laidOut[2].st.FlexGrow > 0 /\ laidOut[2].st.FlexBasis > 0
    /\ laidOut[2].st.AlignSelf = Some(AlignItemsStretch)
    /\ <<laidOut[2].w, laidOut[2].h>> = <<20, 20>>
    /\ w > 0 /\ h > 0

----------------------------------------------------------------------------
(* Absolutely positioned children                                          *)

AbsMargin == <<1, 2, 3, 4>>

\* One in-flow item and out-of-flow items with every mix of edge offsets.
AbsInputs ==
    { Input(BoundedShape, 40, 20, ZeroItem),
      Input(BoundedShape, 20, 10, [ZeroItem EXCEPT !.Position = PosAbsolute,
                                                   !.Margin = AbsMargin,
                                                   !.Right = Some(5),
                                                   !.Bottom = Some(7)]),
      Input(BoundedShape, 20, 10, [ZeroItem EXCEPT !.Position = PosAbsolute,
                                                   !.Margin = AbsMargin,
                                                   !.Left = Some(6),
                                                   !.Top = Some(8)]),
      Input(Boundable, 20, 10, [ZeroItem EXCEPT !.Position = PosAbsolute,
                                                !.Margin = AbsMargin,
                                                !.Width = 15,
                                                !.Left = Some(6), !.Right = Some(9),
                                                !.Top = Some(8), !.Bottom = Some(11)]),
      Input(BoundedShape, 20, 10, [ZeroItem EXCEPT !.Position = PosAbsolute,
                                                   !.Margin = AbsMargin]),
      Input(Resizable, 20, 10, [ZeroItem EXCEPT !.Position = PosAbsolute,
                                                !.Left = Some(0),
                                                !.Bottom = Some(0)]) }

AbsStyles ==
    { [ZeroStyle EXCEPT !.Width = 200, !.Height = 100,
                        !.Padding = <<3, 4, 5, 6>>],
      [ZeroStyle EXCEPT !.Direction = Column, !.Gap = [X |-> 0, Y |-> 10]],
      [ZeroStyle EXCEPT !.Wrap = TRUE, !.Width = 50,
                        !.Padding = <<5, 5, 5, 5>>,
                        !.Gap = [X |-> 2, Y |-> 3]] }

InitAbs ==
    \E o \in Origins, st \in AbsStyles, ins \in SeqsUpTo(AbsInputs, MaxItems) :
        Built(o, st, ins)

SpecAbs == InitAbs /\ [][NextLayout]_vars

FarOffsets == {Nil, Some(0), Some(9), Some(60)}

\* C16: with both Left and Right given, x is the content-box origin plus Left
\* plus the left margin and is the same for every value of Right; with both
\* Top and Bottom given, y depends on Top alone in the same way.
C16_NearEdgeWins ==
    (trace.ran /\ shapesAsLaidOut) =>
        \A i \in 1..Len(laidOut) :
            LET n == laidOut[i]
            IN  isAbsolute(n) =>
                  /\ (n.st.Left # Nil /\ n.st.Right # Nil) =>
                        /\ n.x = x + style.Padding[4] + Deref(n.st.Left) + n.st.Margin[4]
                        /\ \A r \in FarOffsets :
                              layoutFlex(style, [laidOut EXCEPT ![i].st.Right = r],
                                         x, y).kids[i].x = n.x
                  /\ (n.st.Top # Nil /\ n.st.Bottom # Nil) =>
                        /\ n.y = y + style.Padding[1] + Deref(n.st.Top) + n.st.Margin[1]
                        /\ \A b \in FarOffsets :
                              layoutFlex(style, [laidOut EXCEPT ![i].st.Bottom = b],
                                         x, y).kids[i].y = n.y

\* A laid-out child that gives all four offsets.
C16_Witness ==
    /\ trace.ran /\ shapesAsLaidOut
    /\ \E i \in 1..Len(laidOut) :
          /\ isAbsolute(laidOut[i])
          /\ laidOut[i].st.Left = Some(6) /\ laidOut[i].st.Right = Some(9)
          /\ laidOut[i].st.Top = Some(8) /\ laidOut[i].st.Bottom = Some(11)
          /\ laidOut[i].x = x + style.Padding[4] + 10
          /\ laidOut[i].y = y + style.Padding[1] + 9

----------------------------------------------------------------------------
(* justify-content, align-content and align-items                          *)

\* Items of every alignment, with margins, one of them without any size.
AlignInputs ==
    { Input(BoundedShape, 40, 20, ZeroItem),
      Input(BoundedShape, 30, 30, [ZeroItem EXCEPT !.Margin = <<2, 3, 4, 5>>]),
      Input(Boundable, 20, 10, [ZeroItem EXCEPT !.AlignSelf = Some(AlignItemsStretch),
                                                !.Margin = <<1, 1, 1, 1>>]),
      Input(PlainShape, 0, 0, [ZeroItem EXCEPT !.AlignSelf = Some(AlignItemsStretch)]),
      Input(BoundedShape, 25, 15, [ZeroItem EXCEPT !.AlignSelf = Some(AlignItemsEnd),
                                                   !.IgnoreGapBefore = TRUE]),
      Input(Resizable, 50, 10, [ZeroItem EXCEPT !.AlignSelf = Some(AlignItemsCenter),
                                                !.Height = 12]) }

\* One container per justify-content mode, over the align-content and
\* align-items modes.
AlignStyles ==
    { [ZeroStyle EXCEPT !.Wrap = TRUE, !.Width = 100, !.Height = 100,
                        !.Gap = [X |-> 4, Y |-> 6],
                        !.Padding = <<3, 4, 5, 6>>,
                        !.Justify = JustifyCenter,
                        !.AlignContent = AlignItemsStretch,
                        !.AlignItems = AlignItemsStretch],
      [ZeroStyle EXCEPT !.Wrap = TRUE, !.Width = 100, !.Height = 99,
                        !.Gap = [X |-> 4, Y |-> 6],
                        !.Justify = JustifyEnd,
                        !.AlignContent = AlignItemsCenter,
                        !.AlignItems = AlignItemsCenter],
      [ZeroStyle EXCEPT !.Wrap = TRUE, !.Width = 100, !.Height = 100,
                        !.Gap = [X |-> 4, Y |-> 6],
                        !.Justify = JustifySpaceBetween,
                        !.AlignContent = AlignItemsEnd,
                        !.AlignItems = AlignItemsEnd],
      [ZeroStyle EXCEPT !.Direction = Column, !.Wrap = TRUE,
                        !.Width = 101, !.Height = 60,
                        !.Gap = [X |-> 5, Y |-> 3],
                        !.Justify = JustifySpaceAround,
                        !.AlignContent = AlignItemsStretch],
      [ZeroStyle EXCEPT !.Width = 97, !.Height = 40,
                        !.Justify = JustifySpaceEvenly,
                        !.AlignItems = AlignItemsStretch],
      [ZeroStyle EXCEPT !.Wrap = TRUE, !.Width = 100,
                        !.Gap = [X |-> 4, Y |-> 6],
                        !.AlignContent = AlignItemsStretch,
                        !.AlignItems = AlignItemsStretch] }

InitAlign ==
    \E o \in Origins, st \in AlignStyles, ins \in SeqsUpTo(AlignInputs, MaxItems) :
        Built(o, st, ins)

SpecAlign == InitAlign /\ [][NextLayout]_vars

\* Start of the content box on the main and on the cross axis.
mainOrigin == IF trace.isRow THEN x + style.Padding[4] ELSE y + style.Padding[1]
crossOrigin == IF trace.isRow THEN y + style.Padding[1] ELSE x + style.Padding[4]

\* Leading and trailing main-axis margin of a node.
leadMain(n) == IF trace.isRow THEN n.st.Margin[4] ELSE n.st.Margin[1]
trailMain(n) == IF trace.isRow THEN n.st.Margin[2] ELSE n.st.Margin[3]

\* Resolved main size of a node.
mainSize(n) == IF trace.isRow THEN n.w ELSE n.h

\* Leading offset and extra spacing of justify-content for slack S, n items.
spacing(S, n) ==
    IF style.Justify = JustifyStart THEN <<0, 0>>
    ELSE IF style.Justify = JustifyCenter THEN <<S \div 2, 0>>
    ELSE IF style.Justify = JustifyEnd THEN <<S, 0>>
    ELSE IF style.Justify = JustifySpaceBetween
    THEN (IF n > 1 THEN <<0, S \div (n - 1)>> ELSE <<0, 0>>)
    ELSE IF style.Justify = JustifySpaceAround
    THEN <<(S \div n) \div 2, S \div n>>
    ELSE <<S \div (n + 1), S \div (n + 1)>>

\* C18: with slack S = max(0, budget - used length after flex resolution),
\* justify-content gives (leading offset, extra spacing): start (0, 0),
\* center (S/2, 0), end (S, 0), space-between (0, S/(n-1)) or (0, 0) for
\* n = 1, space-around (extra/2, S/n), space-evenly (extra, S/(n+1)); the
\* first item starts at the offset and each next one after the previous
\* item, the fixed gap (unless suppressed) and the extra spacing.
C18_JustifyContent ==
    (trace.ran /\ shapesAsLaidOut) =>
        \A li \in 1..Len(trace.placed) :
            LET p == trace.placed[li]
                n == Len(p.items)
                nd(k) == laidOut[p.items[k]]
                used == SumSeq([k \in 1..n |->
                                  mainSize(nd(k)) + leadMain(nd(k)) + trailMain(nd(k))
                                  + (IF k > 1 THEN gapBefore(p.items[k]) ELSE 0)])
                S == MaxInt(0, p.effectiveLimit - used)
                sp == spacing(S, n)
            IN  /\ <<p.offset, p.extra>> = sp
                /\ mainPos(nd(1)) = mainOrigin + sp[1] + leadMain(nd(1))
                /\ \A k \in 1..(n - 1) :
                      mainPos(nd(k + 1))
                          = mainPos(nd(k)) + mainSize(nd(k)) + trailMain(nd(k))
                            + gapBefore(p.items[k + 1]) + sp[2]
                            + leadMain(nd(k + 1))

\* A space-between line of three items with slack to share out.
C18_Witness ==
    /\ trace.ran /\ shapesAsLaidOut
    /\ style.Justify = JustifySpaceBetween
    /\ \E li \in 1..Len(trace.placed) :
          LET p == trace.placed[li]
          IN  /\ Len(p.items) = 3
              /\ p.remaining > 1
              /\ p.extra = p.remaining \div 2
              /\ mainPos(laidOut[p.items[3]]) > mainPos(laidOut[p.items[2]]) + p.extra

\* Cross-axis room left over by the lines, and each line's stretch share.
leftover ==
    LET L == Len(trace.lines)
        gapCross == IF trace.isRow THEN style.Gap.Y ELSE style.Gap.X
    IN  MaxInt(0, crossContent
                  - (SumSeq([li \in 1..L |-> trace.lines[li].cross])
                     + (L - 1) * gapCross))

stretchShare ==
    IF style.AlignContent = AlignItemsStretch /\ Len(trace.lines) > 0
    THEN leftover \div Len(trace.lines) ELSE 0

\* Cross-axis position of a node.
crossPos(n) == IF trace.isRow THEN n.y ELSE n.x
leadCross(n) == IF trace.isRow THEN n.st.Margin[1] ELSE n.st.Margin[4]

\* Effective alignment of a node: AlignSelf, else the container's AlignItems.
alignOf(n) == IF n.st.AlignSelf # Nil THEN Deref(n.st.AlignSelf) ELSE style.AlignItems

\* C19: the first line starts at cross offset 0 for start and stretch,
\* leftover/2 for center, leftover for end; stretch enlarges each line's
\* extent by leftover/L; each following line starts at the previous start
\* plus the previous (enlarged) extent plus the cross gap.
C19_AlignContent ==
    (trace.ran /\ shapesAsLaidOut) =>
        \A li \in 1..Len(trace.placed) :
            LET p == trace.placed[li]
                gapCross == IF trace.isRow THEN style.Gap.Y ELSE style.Gap.X
            IN  /\ p.lineCrossSize = trace.lines[li].cross + stretchShare
                /\ p.crossOffset =
                      IF li = 1
                      THEN (IF style.AlignContent = AlignItemsCenter
                            THEN leftover \div 2
                            ELSE IF style.AlignContent = AlignItemsEnd
                            THEN leftover ELSE 0)
                      ELSE trace.placed[li - 1].crossOffset
                           + trace.placed[li - 1].lineCrossSize + gapCross
                /\ li > 1 => p.crossOffset >= trace.placed[li - 1].crossOffset
                                             + trace.placed[li - 1].lineCrossSize
                /\ \A k \in 1..Len(p.items) :
                      LET n == laidOut[p.items[k]]
                      IN  alignOf(n) \in {AlignItemsStart, AlignItemsStretch} =>
                              crossPos(n) = crossOrigin + p.crossOffset + leadCross(n)

\* Two stretched lines sharing an odd leftover.
C19_Witness ==
    /\ trace.ran /\ shapesAsLaidOut
    /\ style.AlignContent = AlignItemsStretch
    /\ Len(trace.placed) = 2
    /\ leftover % 2 = 1
    /\ stretchShare > 0
    /\ trace.placed[2].crossOffset
          = trace.lines[1].cross + stretchShare
            + (IF trace.isRow THEN style.Gap.Y ELSE style.Gap.X)

\* Cross size of a node, and its cross size before any stretching.
crossSize(n) == IF trace.isRow THEN n.h ELSE n.w
baseCrossSize(n) ==
    IF trace.isRow
    THEN (IF n.st.Height > 0 THEN n.st.Height ELSE explicitOrIntrinsic(n)[2])
    ELSE (IF n.st.Width > 0 THEN n.st.Width ELSE explicitOrIntrinsic(n)[1])

\* C20: a stretch item gets cross size max(1, line extent including the
\* align-content share - its two cross margins) and sits at the line's cross
\* start plus its leading cross margin; an item of any other alignment keeps
\* its base cross size.
C20_StretchFillsLine ==
    (trace.ran /\ shapesAsLaidOut) =>
        \A li \in 1..Len(trace.placed) :
            LET p == trace.placed[li]
                ext == trace.lines[li].cross + stretchShare
            IN  \A k \in 1..Len(p.items) :
                    LET n == laidOut[p.items[k]]
                        cm == IF trace.isRow THEN n.st.Margin[1] + n.st.Margin[3]
                              ELSE n.st.Margin[4] + n.st.Margin[2]
                    IN  IF alignOf(n) = AlignItemsStretch
                        THEN /\ crossSize(n) = MaxInt(1, ext - cm)
                             /\ crossPos(n) = crossOrigin + p.crossOffset + leadCross(n)
                        ELSE crossSize(n) = baseCrossSize(n)

\* A stretch item with margins filling a line enlarged by align-content,
\* next to an item that keeps its size.
C20_Witness ==
    /\ trace.ran /\ shapesAsLaidOut
    /\ stretchShare > 0
    /\ \E li \in 1..Len(trace.placed) :
          LET p == trace.placed[li]
          IN  /\ Len(p.items) >= 2
              /\ \E k \in 1..Len(p.items) :
                    /\ alignOf(laidOut[p.items[k]]) = AlignItemsStretch
                    /\ leadCross(laidOut[p.items[k]]) > 0
                    /\ crossSize(laidOut[p.items[k]]) > baseCrossSize(laidOut[p.items[k]])
              /\ \E k \in 1..Len(p.items) :
                    /\ alignOf(laidOut[p.items[k]]) # AlignItemsStretch
                    /\ crossSize(laidOut[p.items[k]]) < p.lineCrossSize

\* Trailing cross-axis margin of a node.
trailCross(n) == IF trace.isRow THEN n.st.Margin[3] ELSE n.st.Margin[2]

\* C21: an in-flow item is aligned by its AlignSelf when set and by the
\* container's AlignItems otherwise; in a line of cross extent C an item of
\* cross size s with cross margins (m0, m1) sits at cross offset m0 for
\* start, (C - s - (m0 + m1))/2 + m0 for center and C - s - m1 for end, in
\* rows and in columns.
C21_AlignItems ==
    (trace.ran /\ shapesAsLaidOut) =>
        \A li \in 1..Len(trace.placed) :
            LET p == trace.placed[li]
                C == p.lineCrossSize
            IN  \A k \in 1..Len(p.items) :
                    LET n == laidOut[p.items[k]]
                        s == crossSize(n)
                        m0 == leadCross(n)
                        m1 == trailCross(n)
                        at == crossPos(n) - (crossOrigin + p.crossOffset)
                    IN  /\ p.recs[k].align = alignOf(n)
                        /\ alignOf(n) = AlignItemsStart => at = m0
                        /\ alignOf(n) = AlignItemsCenter =>
                              at = quo(C - s - (m0 + m1), 2) + m0
                        /\ alignOf(n) = AlignItemsEnd => at = C - s - m1

\* An item centred by the container's AlignItems next to a taller item with
\* margins, and an item whose AlignSelf puts it at the end of its line.
C21_Witness ==
    /\ trace.ran /\ shapesAsLaidOut
    /\ style.AlignItems = AlignItemsCenter
    /\ \E li \in 1..Len(trace.placed) :
          LET p == trace.placed[li]
          IN  \E k1, k2 \in 1..Len(p.items) :
                  LET a == laidOut[p.items[k1]]
                      b == laidOut[p.items[k2]]
                  IN  /\ a.st.AlignSelf = Nil /\ b.st.AlignSelf = Nil
                      /\ leadCross(b) + trailCross(b) > 0
                      /\ crossPos(a) > crossOrigin + p.crossOffset
                      /\ crossSize(a) < p.lineCrossSize
    /\ \E li \in 1..Len(trace.placed) :
          LET p == trace.placed[li]
          IN  \E k \in 1..Len(p.items) :
                  LET b == laidOut[p.items[k]]
                  IN  /\ b.st.AlignSelf = Some(AlignItemsEnd)
                      /\ crossSize(b) < p.lineCrossSize
                      /\ crossPos(b) + crossSize(b)
                            = crossOrigin + p.crossOffset + p.lineCrossSize

\* The calls the child with the given id received in the last Draw.
callsOf(id) == SelectSeq(painted, LAMBDA c : c.id = id)

call(id, name, args) == [id |-> id, call |-> name, args |-> args]

----------------------------------------------------------------------------
(* Degenerate inputs                                                       *)

\* Most children of a container with degenerate input.
MaxEdgeItems == 2

\* An absolute child, an item without flex factors, a shape without size.
EdgeInputs ==
    { Input(BoundedShape, 20, 20, [ZeroItem EXCEPT !.Position = PosAbsolute,
                                                   !.Right = Some(1)]),
      Input(Boundable, 10, 10, ZeroItem),
      Input(PlainShape, 0, 0, ZeroItem) }

\* Every justify-content mode and every align-content mode, in both
\* directions, with and without Wrap, auto-sized, smaller than the padding
\* and roomy.
EdgeStyles ==
    { [ZeroStyle EXCEPT !.Justify = ja[1], !.AlignContent = ja[2],
                        !.Direction = d, !.Wrap = wr,
                        !.Width = sz[1], !.Height = sz[2],
                        !.Padding = <<3, 3, 3, 3>>, !.Gap = [X |-> 2, Y |-> 2]] :
        ja \in {<<j, AlignItemsStretch>> :
                   j \in {JustifyStart, JustifyCenter, JustifyEnd,
                          JustifySpaceBetween, JustifySpaceAround,
                          JustifySpaceEvenly}}
               \cup {<<JustifySpaceBetween, a>> :
                        a \in {AlignItemsStart, AlignItemsCenter, AlignItemsEnd}},
        d \in {Row, Column}, wr \in BOOLEAN,
        sz \in {<<0, 0>>, <<4, 4>>, <<40, 0>>} }

InitEdge ==
    \E o \in Origins, st \in EdgeStyles, ins \in SeqsUpTo(EdgeInputs, MaxEdgeItems) :
        Built(o, st, ins)

SpecEdge == InitEdge /\ [][NextLayout]_vars

\* No flex branch of the switch applies to the line.
noFlexBranch(p) ==
    ~(p.flexFree > 0 /\ p.totalGrow > 0) /\ ~(p.flexFree < 0 /\ p.totalShrink > 0)

\* C23: Size() and Draw() always complete, for an empty child list, a list
\* of absolute children only, a line of one item under every justify-content
\* mode, zero lines under every align-content mode, total FlexGrow 0 and an
\* explicit size smaller than the padding; the content size of the result is
\* >= 0 on both axes, and in a line to which no flex branch applies every
\* item keeps its base main size.
C23_NeverFails ==
    /\ ENABLED Size
    /\ ENABLED Draw
    /\ trace.ran =>
          /\ trace.innerW >= 0 /\ trace.innerH >= 0
          /\ w - style.Padding[4] - style.Padding[2] >= 0
          /\ h - style.Padding[1] - style.Padding[3] >= 0
          /\ Len(trace.placed) = Len(trace.lines)
          /\ \A li \in 1..Len(trace.placed) :
                LET p == trace.placed[li]
                IN  noFlexBranch(p) =>
                      \A k \in 1..Len(p.recs) :
                          mainSizeOf(p.recs[k].id) = p.recs[k].baseMainContent

\* Draw has laid out a stretch container that is smaller than its padding
\* and holds one absolute child only: no line, content size 0.
C23_Witness ==
    /\ trace.ran /\ hist.op = "Draw"
    /\ Len(children) = 1 /\ isAbsolute(children[1])
    /\ Len(trace.lines) = 0
    /\ style.AlignContent = AlignItemsStretch
    /\ style.Width = 4 /\ trace.innerW = 0

----------------------------------------------------------------------------
(* Remainder pixels of the flex distribution                               *)

\* Two items that shrink with factors 1 and 3, and items that grow with
\* factors 4 and 1.
ShareInputs ==
    { Input(Boundable, 60, 20, [ZeroItem EXCEPT !.FlexShrink = 1]),
      Input(Boundable, 60, 20, [ZeroItem EXCEPT !.FlexShrink = 3]),
      Input(Boundable, 10, 10, [ZeroItem EXCEPT !.FlexGrow = 4]),
      Input(Boundable, 10, 10, [ZeroItem EXCEPT !.FlexGrow = 1]) }

\* A row 100 wide inside its padding with a gap of 10, and a row 32 wide.
ShareStyles ==
    { [ZeroStyle EXCEPT !.Width = 110, !.Height = 60,
                        !.Padding = <<5, 5, 5, 5>>,
                        !.Gap = [X |-> 10, Y |-> 0]],
      [ZeroStyle EXCEPT !.Width = 32] }

InitShare ==
    \E o \in Origins, st \in ShareStyles, ins \in SeqsUpTo(ShareInputs, MaxItems) :
        Built(o, st, ins)

SpecShare == InitShare /\ [][NextLayout]_vars

\* Whole part and fractional remainder (in units of 1/total) of the exact
\* proportional share amount * factor / total.
wholeShare(amount, factor, total) == (amount * factor) \div total
remainderOf(amount, factor, total) == (amount * factor) % total

\* Place of item k when the items are ordered by descending fractional
\* remainder, equal remainders in line order (0-based).
remainderPlace(amount, factors, total, k) ==
    Cardinality({j \in 1..Len(factors) :
                    remainderOf(amount, factors[j], total)
                        > remainderOf(amount, factors[k], total)})
    + Cardinality({j \in 1..(k - 1) :
                    remainderOf(amount, factors[j], total)
                        = remainderOf(amount, factors[k], total)})

\* Pixels item k receives: its floored share, and one of the pixels left
\* after flooring when it is among the first of that order.
pixelsFor(amount, factors, total, k) ==
    wholeShare(amount, factors[k], total)
    + (IF remainderPlace(amount, factors, total, k)
            < amount - SumSeq([j \in 1..Len(factors) |->
                                 wholeShare(amount, factors[j], total)])
       THEN 1 ELSE 0)

growFactors(p) == [k \in 1..Len(p.recs) |-> p.recs[k].grow]
shrinkFactors(p) == [k \in 1..Len(p.recs) |-> p.recs[k].shrink]

\* C24: in the grow and in the shrink branch the pixels left after flooring
\* the proportional shares go one each to the items with the largest
\* fractional remainder, equal remainders in line order.
C24_RemainderByFraction ==
    (trace.ran /\ shapesAsLaidOut) =>
        \A li \in 1..Len(trace.placed) :
            LET p == trace.placed[li]
            IN  /\ (p.flexFree > 0 /\ p.totalGrow > 0) =>
                      \A k \in 1..Len(p.recs) :
                          mainSizeOf(p.recs[k].id)
                            = p.recs[k].baseMainContent
                              + pixelsFor(p.flexFree, growFactors(p), p.totalGrow, k)
                /\ (p.flexFree < 0 /\ p.totalShrink > 0) =>
                      \A k \in 1..Len(p.recs) :
                          mainSizeOf(p.recs[k].id)
                            = MaxInt(0, p.recs[k].baseMainContent
                                        - pixelsFor(-p.flexFree, shrinkFactors(p),
                                                    p.totalShrink, k))

----------------------------------------------------------------------------
(* Which flex factors a line uses                                          *)

\* Declared factors of the item with the given id.
declaredGrow(id) == nodeById(children, id).st.FlexGrow
declaredShrink(id) == nodeById(children, id).st.FlexShrink

\* Sum of f over the items of line p.
lineTotal(p, f(_)) == SumSeq([k \in 1..Len(p.recs) |-> f(p.recs[k].id)])

\* Shrink factor of an item in a deficit: a declared 0 counts as 1.
deficitFactor(id) == IF declaredShrink(id) = 0 THEN 1 ELSE declaredShrink(id)

\* C25: in a line with flexFree < 0 every item gives up the floor of its
\* share of the deficit or one pixel more, the share taken by shrink factors
\* with a declared 0 counted as 1 and without regard to FlexGrow, and its
\* size is never below 0 (an item whose share exceeds its size ends at 0);
\* items that all declare 0 shrink in equal shares; with flexFree > 0 the
\* increases follow FlexGrow alone; with flexFree = 0, or flexFree > 0 and
\* total FlexGrow 0, every item keeps its base main size.
C25_FlexFactorsByBranch ==
    trace.ran =>
        \A li \in 1..Len(trace.placed) :
            LET p == trace.placed[li]
                n == Len(p.recs)
                size(k) == mainSizeOf(p.recs[k].id)
                base(k) == p.recs[k].baseMainContent
            IN  /\ \A k \in 1..n : size(k) >= 0
                /\ p.flexFree < 0 =>
                      \A k \in 1..n :
                          LET fl == ((-p.flexFree) * deficitFactor(p.recs[k].id))
                                        \div lineTotal(p, deficitFactor)
                          IN  /\ size(k) \in {MaxInt(0, base(k) - fl),
                                              MaxInt(0, base(k) - fl - 1)}
                              /\ (\A m \in 1..n : declaredShrink(p.recs[m].id) = 0)
                                    => fl = (-p.flexFree) \div n
                /\ (p.flexFree > 0 /\ lineTotal(p, declaredGrow) > 0) =>
                      \A k \in 1..n :
                          LET fl == (p.flexFree * declaredGrow(p.recs[k].id))
                                        \div lineTotal(p, declaredGrow)
                          IN  size(k) - base(k) \in {fl, fl + 1}
                /\ (p.flexFree = 0
                    \/ (p.flexFree > 0 /\ lineTotal(p, declaredGrow) = 0)) =>
                      \A k \in 1..n : size(k) = base(k)

\* A line of three items with a deficit: none declares FlexShrink, one
\* declares FlexGrow, and all three are shrunk.
C25_Witness ==
    /\ trace.ran
    /\ \E li \in 1..Len(trace.placed) :
          LET p == trace.placed[li]
          IN  /\ p.flexFree < 0
              /\ Len(p.recs) = 3
              /\ \A k \in 1..3 : declaredShrink(p.recs[k].id) = 0
              /\ \E k \in 1..3 : declaredGrow(p.recs[k].id) > 0
              /\ \A k \in 1..3 :
                    /\ mainSizeOf(p.recs[k].id) < p.recs[k].baseMainContent
                    /\ mainSizeOf(p.recs[k].id) > 0

----------------------------------------------------------------------------
(* Absolute children of auto-sized containers                              *)

\* The content size computeInner estimates before the lines are built.
estimate == computeInner(style, laidOut, trace.isRow)

\* C26: in a container with an auto-sized axis a child anchored by Right
\* (and not Left) satisfies x + w + mr + Right = origin.x + Size().Width -
\* padding.right, and a child anchored by Bottom (and not Top) satisfies
\* y + h + mb + Bottom = origin.y + Size().Height - padding.bottom: the
\* content size it is positioned against is the one Size() reports.
C26_AbsoluteAfterAutoSize ==
    (trace.ran /\ shapesAsLaidOut /\ (style.Width = 0 \/ style.Height = 0)) =>
        /\ hist.op = "Size" => hist.ret = Some(<<w, h>>)
        /\ \A i \in 1..Len(laidOut) :
              LET n == laidOut[i]
              IN  isAbsolute(n) =>
                    /\ (n.st.Left = Nil /\ n.st.Right # Nil) =>
                          n.x + n.w + n.st.Margin[2] + Deref(n.st.Right)
                            = x + w - style.Padding[2]
                    /\ (n.st.Top = Nil /\ n.st.Bottom # Nil) =>
                          n.y + n.h + n.st.Margin[3] + Deref(n.st.Bottom)
                            = y + h - style.Padding[3]

\* Size() of a wrapped row with auto Height: the content is taller than the
\* single-line estimate and a child is anchored by Bottom.
C26_Witness ==
    /\ trace.ran /\ hist.op = "Size"
    /\ style.Height = 0 /\ Len(trace.lines) > 1
    /\ estimate.innerH < h - style.Padding[1] - style.Padding[3]
    /\ \E i \in 1..Len(laidOut) :
          /\ isAbsolute(laidOut[i])
          /\ laidOut[i].st.Top = Nil /\ laidOut[i].st.Bottom # Nil

----------------------------------------------------------------------------
(* Layout before hand-over                                                 *)

\* The geometry calls of the last Draw agree with the nodes kids.
handsOver(calls, kids) ==
    /\ \A k \in 1..Len(calls) :
          LET c == calls[k]
              n == nodeById(kids, c.id)
          IN  /\ c.call = "SetBounds" => c.args = <<n.x, n.y, n.w, n.h>>
              /\ c.call = "SetPosition" => c.args = <<n.x, n.y>>
              /\ c.call = "SetSize" => c.args = <<n.w, n.h>>
    /\ \A i \in 1..Len(kids) :
          kids[i].kind # PlainShape =>
              \E k \in 1..Len(calls) :
                  calls[k].id = kids[i].id /\ calls[k].call # "Draw"

\* C27: a Draw of a container that needs a layout pass hands over the
\* geometry the complete pass over the current style and children computes
\* (absolute children included) and caches its outer size; and the geometry
\* any Draw hands over was computed for the current style and the current
\* children, never for an earlier style or child list.
C27_LayoutBeforeHandOver ==
    [][hist'.op = "Draw" =>
          /\ ~dirty'
          /\ basis' = Some(inputOf(style', children'))
          /\ handsOver(painted', children')
          /\ needsLayout(dirty, w, h) =>
                LET L == layoutFlex(style, children, x, y)
                IN  /\ trace'.ran
                    /\ w' = L.w /\ h' = L.h
                    /\ handsOver(painted', L.kids)]_vars

\* A Draw that ran a layout pass over children an earlier Draw had painted
\* (their order is no longer that of their ids), one of them absolute.
C27_Witness ==
    /\ hist.op = "Draw" /\ trace.ran
    /\ basis = Some(inputOf(style, children))
    /\ trace.order # [i \in 1..Len(children) |-> i]
    /\ \E i \in 1..Len(children) :
          /\ isAbsolute(children[i])
          /\ \E k \in 1..Len(painted) :
                /\ painted[k].id = children[i].id
                /\ painted[k].call = "SetPosition"
                /\ painted[k].args = <<children[i].x, children[i].y>>

----------------------------------------------------------------------------
(* The lines as a partition of the in-flow children                        *)

\* Items shorter and longer than the limits below, and an absolute one.
LongInputs ==
    { Input(BoundedShape, 30, 10, ZeroItem),
      Input(BoundedShape, 120, 20, ZeroItem),
      Input(BoundedShape, 60, 60, [ZeroItem EXCEPT !.IgnoreGapBefore = TRUE]),
      Input(BoundedShape, 20, 20, [ZeroItem EXCEPT !.Position = PosAbsolute,
                                                   !.Left = Some(0)]) }

\* A wrapping row, the same row without Wrap, and a wrapping column.
LongStyles ==
    { [ZeroStyle EXCEPT !.Wrap = TRUE, !.Width = 100,
                        !.Gap = [X |-> 10, Y |-> 5]],
      [ZeroStyle EXCEPT !.Width = 100, !.Gap = [X |-> 10, Y |-> 5]],
      [ZeroStyle EXCEPT !.Wrap = TRUE, !.Direction = Column, !.Height = 50,
                        !.Gap = [X |-> 5, Y |-> 10]] }

InitLong ==
    \E o \in Origins, st \in LongStyles, ins \in SeqsUpTo(LongInputs, MaxItems) :
        Built(o, st, ins)

SpecLong == InitLong /\ [][NextLayout]_vars

\* The lines one after the other.
RECURSIVE concatLines(_, _)
concatLines(lines, k) ==
    IF k = 0 THEN <<>> ELSE concatLines(lines, k - 1) \o lines[k].items

\* The lines hold the in-flow children, each once, in child-list order, and
\* no line is empty.
partitionsInFlow(lines) ==
    /\ \A li \in 1..Len(lines) : Len(lines[li].items) >= 1
    /\ concatLines(lines, Len(lines)) = inFlowSeq
    /\ \A i \in 1..Len(laidOut) :
          Cardinality({<<li, k>> \in (1..Len(lines)) \X (1..Len(laidOut)) :
                          k <= Len(lines[li].items) /\ lines[li].items[k] = i})
            = (IF isAbsolute(laidOut[i]) THEN 0 ELSE 1)

\* Child i is the first item of a line; child i is the only item of a line.
startsLine(lines, i) == \E li \in 1..Len(lines) : lines[li].items[1] = i
aloneOnLine(lines, i) == \E li \in 1..Len(lines) : lines[li].items = <<i>>

\* C28 as stated: the lines partition the in-flow children, and an item
\* whose base length alone exceeds the main-axis limit starts a line, in
\* every container.
C28_LinesPartition ==
    (trace.ran /\ shapesAsLaidOut) =>
        /\ partitionsInFlow(trace.lines)
        /\ \A i \in 1..Len(laidOut) :
              (~isAbsolute(laidOut[i]) /\ baseLen(i) > trace.mainLimit)
                  => startsLine(trace.lines, i)

\* C28 amended: the lines partition the in-flow children; with Wrap enabled
\* an item whose base length alone exceeds the main-axis limit forms a line
\* by itself; without Wrap all in-flow children are on one line, whatever
\* their lengths.
C28_LinesPartitionWrap ==
    (trace.ran /\ shapesAsLaidOut) =>
        /\ partitionsInFlow(trace.lines)
        /\ style.Wrap =>
              \A i \in 1..Len(laidOut) :
                  (~isAbsolute(laidOut[i]) /\ baseLen(i) > trace.mainLimit)
                      => aloneOnLine(trace.lines, i)
        /\ ~style.Wrap => Len(trace.lines) <= 1

\* A wrapping row of three children: an absolute one, a short one and one
\* longer than the limit, which has the second line for itself.
C28_Witness ==
    /\ trace.ran /\ shapesAsLaidOut /\ style.Wrap
    /\ Len(laidOut) = 3
    /\ \E i \in 1..3 : isAbsolute(laidOut[i])
    /\ Len(trace.lines) = 2
    /\ Len(trace.lines[2].items) = 1
    /\ baseLen(trace.lines[2].items[1]) > trace.mainLimit

----------------------------------------------------------------------------
(* Items of a line on the main axis                                        *)

\* Extent of the content box on the main axis.
mainExtent == IF trace.isRow THEN trace.innerW ELSE trace.innerH

\* Main-axis start and end of the margin box of a node.
boxStart(n) == mainPos(n) - leadMain(n)
boxEnd(n) == mainPos(n) + mainSize(n) + trailMain(n)

\* Length the line uses after flex resolution: items, margins, applied gaps.
usedMain(p) ==
    SumSeq([k \in 1..Len(p.items) |->
              mainSize(laidOut[p.items[k]]) + leadMain(laidOut[p.items[k]])
              + trailMain(laidOut[p.items[k]])
              + (IF k > 1 THEN gapBefore(p.items[k]) ELSE 0)])

\* The items of line p follow each other without overlapping.
inLineOrder(p) ==
    \A k \in 2..Len(p.items) :
        boxStart(laidOut[p.items[k]]) >= boxEnd(laidOut[p.items[k - 1]])

\* Every margin box of line p lies inside the content box.
insideContentBox(p) ==
    \A k \in 1..Len(p.items) :
        /\ boxStart(laidOut[p.items[k]]) >= mainOrigin
        /\ boxEnd(laidOut[p.items[k]]) <= mainOrigin + mainExtent

\* C29: after a layout pass the items of each line are placed in line order
\* without overlapping on the main axis, and when the line does not overflow
\* its budget every item's margin box lies inside the content box on the
\* main axis.
C29_NoOverlapInsideBox ==
    trace.ran =>
        \A li \in 1..Len(trace.placed) :
            LET p == trace.placed[li]
            IN  /\ inLineOrder(p)
                /\ usedMain(p) <= p.effectiveLimit => insideContentBox(p)

\* A line of three items with margins and room to spare under space-around.
C29_Witness ==
    /\ trace.ran
    /\ style.Justify = JustifySpaceAround
    /\ \E li \in 1..Len(trace.placed) :
          LET p == trace.placed[li]
          IN  /\ Len(p.items) = 3
              /\ usedMain(p) < p.effectiveLimit
              /\ \E k \in 1..3 : leadMain(laidOut[p.items[k]]) > 0
              /\ boxStart(laidOut[p.items[1]]) > mainOrigin
              /\ boxEnd(laidOut[p.items[3]]) < mainOrigin + mainExtent

----------------------------------------------------------------------------
(* Laying out again after a Draw                                           *)

\* Shapes that report the size they were last handed: items that shrink,
\* grow and stretch, all of the same ZIndex.
RelayoutInputs ==
    { Input(Boundable, 60, 20, [ZeroItem EXCEPT !.FlexShrink = 1]),
      Input(Boundable, 60, 20, [ZeroItem EXCEPT !.FlexShrink = 3]),
      Input(Boundable, 25, 10, [ZeroItem EXCEPT !.FlexGrow = 1]),
      Input(Boundable, 20, 10, [ZeroItem EXCEPT !.AlignSelf = Some(AlignItemsStretch)]),
      Input(Resizable, 30, 30, ZeroItem) }

\* The row of TestAutoLayoutFlexShrinkDistributionRow, a wrapping row with
\* stretched lines and an auto-sized column.
RelayoutStyles ==
    { [ZeroStyle EXCEPT !.Width = 110, !.Height = 60,
                        !.Padding = <<5, 5, 5, 5>>,
                        !.Gap = [X |-> 10, Y |-> 0]],
      [ZeroStyle EXCEPT !.Wrap = TRUE, !.Width = 100, !.Height = 100,
                        !.Gap = [X |-> 5, Y |-> 5],
                        !.AlignContent = AlignItemsStretch],
      [ZeroStyle EXCEPT !.Direction = Column, !.Gap = [X |-> 0, Y |-> 4],
                        !.AlignItems = AlignItemsStretch] }

InitRelayout ==
    \E o \in Origins, st \in RelayoutStyles,
       ins \in SeqsUpTo(RelayoutInputs, MaxItems) :
        Built(o, st, ins)

\* SetStyle with the style the container already has, after a Draw.
SetSameStyle == hist.op = "Draw" /\ SetStyleTo(style)

\* Draw of a container that has just been built or invalidated.
DrawAgain == hist.op # "Draw" /\ Draw

NextRelayout == DrawAgain \/ SetSameStyle

SpecRelayout == InitRelayout /\ [][NextRelayout]_vars

\* C30: a Draw that follows a Draw and a SetStyle with the identical style
\* hands every child the bounds the first Draw handed it.
C30_RelayoutStable ==
    [][(hist.op = "SetStyle" /\ hist'.op = "Draw") =>
          \A id \in 1..Len(children) :
              boundsOf(nodeById(children', id)) = boundsOf(nodeById(children, id))]_vars

============================================================================
